---- MODULE Spec2Model ----
(***************************************************************************)
(* A model of the rustos kernel (os/) and of its on-disk filesystem        *)
(* library (easy-fs/).  Each subsystem has its own specification over the  *)
(* one set of variables:                                                   *)
(*   SpecFs    easy-fs: Inode::create / write_at / read_at                 *)
(*   SpecCache easy-fs: BlockCacheManager                                  *)
(*   SpecTask  os: fork / exit / waitpid / yield and the ready queue       *)
(*   SpecPipe  os: pipes between forked tasks                              *)
(*   SpecS1    os: the parent/child pipe scenario, with fair scheduling    *)
(* A specification leaves the variables of the other subsystems alone.     *)
(***************************************************************************)
EXTENDS Integers, Sequences, FiniteSets, TLC

VARIABLES
    \* ---- easy-fs: the device seen through the block cache ----
    disk,        \* byte address (block_id * BLOCK_SZ + offset) -> byte; absent = 0
    dinode,      \* inode id -> DiskInode (the inode area, viewed as DiskInode)
    ind,         \* block id -> IndirectBlock (blocks viewed as [u32; 128]); absent = zeroes
    inodeBits,   \* set bits of the inode bitmap
    dataBits,    \* set bits of the data bitmap
    fsFresh,     \* inodes returned by Inode::create and not yet written
    fsLast,      \* the last filesystem call: its arguments and what it returned
    fsOps,       \* number of filesystem calls made
    fsOwned      \* inode id -> the data-bitmap bits Inode::increase_size has
                 \* allocated for it and Inode::clear has not freed

fsVars == <<disk, dinode, ind, inodeBits, dataBits, fsFresh, fsLast, fsOps, fsOwned>>

VARIABLES
    \* ---- easy-fs: BlockCacheManager ----
    queue,         \* BlockCacheManager::queue: entries (block_id, Arc<Mutex<BlockCache>>)
    handles,       \* the Arc clones callers hold: slot -> [eid, block_id], or NONE
    dev,           \* the block device: block id -> contents
    nextEid,       \* identity of the next BlockCache allocated
    cachePanicked, \* get_block_cache has panicked
    latest,        \* block id -> the contents last written to the block by any caller
    cacheLast,     \* the last cache call: its arguments and what it did
    cacheOps       \* number of cache calls made

cacheVars == <<queue, handles, dev, nextEid, cachePanicked, latest, cacheLast, cacheOps>>

VARIABLES
    \* ---- os: tasks, scheduler, pipes ----
    pid_current,   \* PidAllocator::current
    pid_recycled,  \* PidAllocator::recycled
    tcb,           \* pid -> the TCB with that pid (its TCBInner, and what the model
                   \* keeps of its user memory and of its kernel stack)
    ready_queue,   \* TaskManager::ready_queue
    current,       \* Processor::current: a pid, or NONE
    pipes,         \* pipe id -> PipeRingBuffer
    locks,         \* the spin locks held, each with the task that took it
    khalt,         \* "no", or how the kernel stopped: "panic", "hang"
    ahead,         \* pid -> the tasks that were in the ready queue when it was added
                   \* and have not been dispatched since
    written,       \* pipe id -> every byte write_byte put into the ring, in order
    delivered,     \* pipe id -> every byte read_byte took out of the ring, in order
    nSent          \* bytes handed to sys_write so far

osVars == <<pid_current, pid_recycled, tcb, ready_queue, current, pipes, locks, khalt,
            ahead, written, delivered, nSent>>

VARIABLES
    \* ---- the user programs of scenario S1 ----
    upc,           \* pid -> where its program is
    ures           \* what the child's program noted: the results of its two reads

s1Vars == <<upc, ures>>

VARIABLES
    \* ---- os/mm: frame allocator and page table ----
    frame_allocator, \* FRAME_ALLOCATOR: [current, end, recycled]
    mem,             \* physical pages seen as [PageTableEntry; 512]: ppn -> index -> bits
    page_table,      \* PageTable: [root_ppn, frames]
    handed,          \* the ppns alloc has ever returned
    mmPanicked,      \* the kernel has panicked in mm code
    faLast,          \* the last allocator call: its argument and what it did
    ptLast           \* the last page-table call: its arguments and what it did

mmVars == <<frame_allocator, mem, page_table, handed, mmPanicked, faLast, ptLast>>

VARIABLES
    \* ---- os/syscall: the dispatch ----
    dispatched       \* the last system call: id, arguments, the handler called

sysVars == <<dispatched>>

VARIABLES
    \* ---- a call of one function of the program ----
    calc             \* the function, its arguments and, once it has run, its result

calcVars == <<calc>>

VARIABLES
    \* ---- os/trap: a task's system calls ----
    trap_cx,         \* physical page -> the TrapContext in it
    trap_cx_ppn,     \* TCBInner::trap_cx_ppn of the current task
    trapPc,          \* where trap_handler is: "user", "trap", "syscall", "write", ...
    trapCall         \* the system call under way or just done

trapVars == <<trap_cx, trap_cx_ppn, trapPc, trapCall>>

VARIABLES
    \* ---- os/fs: files opened from the filesystem ----
    osinodes,        \* the OSInode objects made so far: id -> [readable, writable, offset, inode]
    fileRef,         \* name -> the bytes the calls made so far should have left in the file
    fileLast         \* the last sys_open, sys_read or sys_write of a file: its arguments,
                     \* what it returned, and what fileRef says it should return

fileVars == <<osinodes, fileRef, fileLast>>

VARIABLES
    \* ---- easy-fs: a Bitmap on its blocks ----
    bitmap,          \* the Bitmap: [start_block_id, blocks]
    bmDev,           \* block id -> the block seen as BitmapBlock: word -> its set bits
    bmLast           \* the last call of the bitmap: its argument, what it returned and
                     \* the blocks before it

bmVars == <<bitmap, bmDev, bmLast>>

vars == <<fsVars, cacheVars, osVars, s1Vars, mmVars, sysVars, calcVars, trapVars, fileVars, bmVars>>

\* what a step of one subsystem leaves alone
FsFrame == UNCHANGED <<cacheVars, osVars, s1Vars, mmVars, sysVars, calcVars, trapVars, fileVars, bmVars>>
CacheFrame == UNCHANGED <<fsVars, osVars, s1Vars, mmVars, sysVars, calcVars, trapVars, fileVars, bmVars>>
OsFrame == UNCHANGED <<fsVars, cacheVars, mmVars, sysVars, calcVars, trapVars, fileVars, bmVars>>
MmFrame == UNCHANGED <<fsVars, cacheVars, osVars, s1Vars, sysVars, calcVars, trapVars, fileVars, bmVars>>
CalcFrame == UNCHANGED <<fsVars, cacheVars, osVars, s1Vars, mmVars, sysVars, trapVars, fileVars, bmVars>>
MmFrameButCalc == UNCHANGED <<fsVars, cacheVars, osVars, s1Vars, sysVars, trapVars, fileVars, bmVars>>
TrapFrame == UNCHANGED <<fsVars, cacheVars, osVars, s1Vars, mmVars, sysVars, calcVars, fileVars, bmVars>>

BmFrame == UNCHANGED <<fsVars, cacheVars, osVars, s1Vars, mmVars, sysVars, calcVars, trapVars, fileVars>>

NoCalc == [fn |-> "none", done |-> FALSE]
CalcInit == calc = NoCalc

\* Option::None where the values are numbers
NONE == 0 - 1

Min(a, b) == IF a < b THEN a ELSE b
Max(a, b) == IF a > b THEN a ELSE b

(***************************************************************************)
(* easy-fs                                                                 *)
(***************************************************************************)

\* ---- bounds of the filesystem model ----
MaxLen == 2          \* longest buffer handed to write_at / read_at
MaxOff == 1          \* largest offset handed to write_at / read_at
MaxFiles == 2        \* Inode::create calls
MaxFsOps == 4        \* filesystem calls in one behaviour
FsTotalBlocks == 4096        \* total_blocks handed to EasyFileSystem::create
FsInodeBitmapBlocks == 1     \* inode_bitmap_blocks handed to EasyFileSystem::create

ByteVals == {1, 2}
Bufs == UNION {[1..n -> ByteVals] : n \in 1..MaxLen}
Names == {<<97>>, <<98>>}

\* ---- program constants ----
BLOCK_SZ == 512
BLOCK_BITS == BLOCK_SZ * 8
EFS_MAGIC == 998244353
INODE_DIRECT_COUNT == 28
INODE_INDIRECT1_COUNT == BLOCK_SZ \div 4
INDIRECT1_BOUND == INODE_DIRECT_COUNT + INODE_INDIRECT1_COUNT
NAME_LENGTH_LIMIT == 27
DIRENTRY_SZ == 32
DISK_INODE_SZ == 4 + 4 * INODE_DIRECT_COUNT + 4 + 4 + 4

LE32(n) == <<n % 256, (n \div 256) % 256, (n \div 65536) % 256, (n \div 16777216) % 256>>

\* ---- EasyFileSystem::create: the layout of the five regions ----
inode_area_blocks ==
    ((FsInodeBitmapBlocks * BLOCK_BITS) * DISK_INODE_SZ + BLOCK_SZ - 1) \div BLOCK_SZ
inode_total_blocks == FsInodeBitmapBlocks + inode_area_blocks
data_total_blocks == FsTotalBlocks - inode_total_blocks - 1
data_bitmap_blocks == (data_total_blocks + BLOCK_BITS) \div (BLOCK_BITS + 1)
data_area_blocks == data_total_blocks - data_bitmap_blocks
inode_area_start_block == 1 + FsInodeBitmapBlocks
data_area_start_block == 1 + inode_total_blocks + data_bitmap_blocks

\* SuperBlock::initialize: the six u32 fields at the start of block 0
SuperBlockBytes ==
    LE32(EFS_MAGIC) \o LE32(FsTotalBlocks) \o LE32(FsInodeBitmapBlocks)
        \o LE32(inode_area_blocks) \o LE32(data_bitmap_blocks) \o LE32(data_area_blocks)

\* block 0, the super block, viewed as an IndirectBlock: its six u32 fields,
\* then the zeroes EasyFileSystem::create left
SuperBlockWords ==
    LET f == <<EFS_MAGIC, FsTotalBlocks, FsInodeBitmapBlocks, inode_area_blocks,
               data_bitmap_blocks, data_area_blocks>>
    IN [j \in 0..(INODE_INDIRECT1_COUNT - 1) |-> IF j < Len(f) THEN f[j + 1] ELSE 0]

\* DiskInode::initialize
DiskInode_initialize(type_) ==
    [size |-> 0, direct |-> [i \in 1..INODE_DIRECT_COUNT |-> 0],
     indirect1 |-> 0, indirect2 |-> 0, type_ |-> type_]

\* Bitmap::alloc on a bitmap whose set bits are `bits`: the lowest clear bit
\* (Bitmap::maximum bits in all; within the bounds the bitmap never fills up)
Bitmap_alloc(bits) == CHOOSE b \in 0..Cardinality(bits) : b \notin bits /\ \A c \in 0..(b - 1) : c \in bits

\* EasyFileSystem::alloc_data, n times in a row: the ids returned, in order
RECURSIVE alloc_data_n(_, _)
alloc_data_n(bits, n) ==
    IF n = 0 THEN <<>>
    ELSE LET b == Bitmap_alloc(bits)
         IN <<b + data_area_start_block>> \o alloc_data_n(bits \cup {b}, n - 1)

\* DiskInode::_data_blocks
data_blocks_of(size) == (size + BLOCK_SZ - 1) \div BLOCK_SZ

\* DiskInode::total_blocks.  The last term is computed in usize as
\* data_blocks - INDIRECT1_BOUND + INODE_INDIRECT1_COUNT - 1; where the first
\* difference wraps, the sum wraps back, so the term is the integer below.
total_blocks(size) ==
    LET data_blocks == data_blocks_of(size)
        t1 == IF data_blocks > INODE_DIRECT_COUNT THEN data_blocks + 1 ELSE data_blocks
    IN IF data_blocks > INODE_INDIRECT1_COUNT
       THEN t1 + ((data_blocks - INDIRECT1_BOUND + INODE_INDIRECT1_COUNT - 1) \div INODE_INDIRECT1_COUNT)
       ELSE t1

\* DiskInode::blocks_num_needed (the caller has checked new_size >= size)
blocks_num_needed(di, new_size) ==
    total_blocks(new_size) - total_blocks(di.size)

\* a block viewed as an IndirectBlock; the device is zeroed by EasyFileSystem::create
IndGet(iv, b) == IF b \in DOMAIN iv THEN iv[b] ELSE [j \in 0..(INODE_INDIRECT1_COUNT - 1) |-> 0]
IndPut(iv, b, blk) == [x \in DOMAIN iv \cup {b} |-> IF x = b THEN blk ELSE iv[x]]

\* new_blocks.next().unwrap(): the k-th id of the vector handed in
NbAt(nb, k) == IF k \in 1..Len(nb) THEN nb[k] ELSE 0

\* DiskInode::increase_size, the double-indirect loop: data block p of the
\* double-indirect range, up to tot; k ids have been consumed
RECURSIVE FillIndirect2(_, _, _, _, _, _)
FillIndirect2(p, tot, k, root, iv, nb) ==
    IF p >= tot THEN [ind |-> iv, used |-> k]
    ELSE LET a0 == p \div INODE_INDIRECT1_COUNT
             b0 == p % INODE_INDIRECT1_COUNT
             k1 == IF b0 = 0 THEN k + 1 ELSE k
             leaf == IF b0 = 0 THEN NbAt(nb, k + 1) ELSE IndGet(iv, root)[a0]
             iv1 == IF b0 = 0 THEN IndPut(iv, root, [IndGet(iv, root) EXCEPT ![a0] = leaf]) ELSE iv
             iv2 == IndPut(iv1, leaf, [IndGet(iv1, leaf) EXCEPT ![b0] = NbAt(nb, k1 + 1)])
         IN FillIndirect2(p + 1, tot, k1 + 1, root, iv2, nb)

\* DiskInode::increase_size(new_size, new_blocks): the inode, the indirect blocks
\* and the number of ids taken from new_blocks
DiskInode_increase_size(di, new_size, nb, iv) ==
    LET cur0 == data_blocks_of(di.size)
        tot0 == data_blocks_of(new_size)
        hi1 == Min(tot0, INODE_DIRECT_COUNT)
        n1 == IF hi1 > cur0 THEN hi1 - cur0 ELSE 0
        d1 == [di EXCEPT !.size = new_size,
                         !.direct = [i \in 1..INODE_DIRECT_COUNT |->
                                        IF i - 1 >= cur0 /\ i - 1 < hi1
                                        THEN NbAt(nb, i - cur0) ELSE di.direct[i]]]
        cur1 == cur0 + n1
    IN IF tot0 <= INODE_DIRECT_COUNT
       THEN [di |-> d1, ind |-> iv, used |-> n1]
       ELSE
        LET k1 == IF cur1 = INODE_DIRECT_COUNT THEN n1 + 1 ELSE n1
            d2 == IF cur1 = INODE_DIRECT_COUNT THEN [d1 EXCEPT !.indirect1 = NbAt(nb, n1 + 1)] ELSE d1
            cur2 == cur1 - INODE_DIRECT_COUNT
            tot1 == tot0 - INODE_DIRECT_COUNT
            hi2 == Min(tot1, INODE_INDIRECT1_COUNT)
            n2 == IF hi2 > cur2 THEN hi2 - cur2 ELSE 0
            iv1 == IndPut(iv, d2.indirect1,
                          [j \in 0..(INODE_INDIRECT1_COUNT - 1) |->
                              IF j >= cur2 /\ j < hi2
                              THEN NbAt(nb, k1 + 1 + j - cur2)
                              ELSE IndGet(iv, d2.indirect1)[j]])
            cur3 == cur2 + n2
            k2 == k1 + n2
        IN IF tot1 <= INODE_INDIRECT1_COUNT
           THEN [di |-> d2, ind |-> iv1, used |-> k2]
           ELSE
            LET k3 == IF cur3 = INODE_INDIRECT1_COUNT THEN k2 + 1 ELSE k2
                d3 == IF cur3 = INODE_INDIRECT1_COUNT THEN [d2 EXCEPT !.indirect2 = NbAt(nb, k2 + 1)] ELSE d2
                f == FillIndirect2(cur3 - INODE_INDIRECT1_COUNT, tot1 - INODE_INDIRECT1_COUNT,
                                   k3, d3.indirect2, iv1, nb)
            IN [di |-> d3, ind |-> f.ind, used |-> f.used]

\* Inode::increase_size (vfs.rs): returns early when new_size < size; otherwise
\* allocates blocks_needed data blocks and calls DiskInode::increase_size with
\* blocks_needed as its first argument
Inode_increase_size(di, new_size, bits, iv) ==
    IF new_size < di.size
    THEN [di |-> di, ind |-> iv, bits |-> bits]
    ELSE LET blocks_needed == blocks_num_needed(di, new_size)
             v == alloc_data_n(bits, blocks_needed)
             r == DiskInode_increase_size(di, blocks_needed, v, iv)
         IN [di |-> r.di, ind |-> r.ind,
             bits |-> bits \cup {v[i] - data_area_start_block : i \in 1..Len(v)}]

\* the byte of the device at a byte address
ByteAt(d, addr) == IF addr \in DOMAIN d THEN d[addr] ELSE 0

\* DiskInode::read_at: the bytes copied into buf (their number is what it returns).
\* The loop hands start_block = position / BLOCK_SZ itself to get_block_cache.
DiskInode_read_at(di, offset, len, d) ==
    LET end == Min(offset + len, di.size)
    IN IF offset >= end THEN <<>>
       ELSE [i \in 1..(end - offset) |->
                ByteAt(d, ((offset + i - 1) \div BLOCK_SZ) * BLOCK_SZ + ((offset + i - 1) % BLOCK_SZ))]

\* DiskInode::write_at: the device afterwards and the number of bytes written.
\* As in read_at, the block written is start_block = position / BLOCK_SZ itself.
DiskInode_write_at(di, offset, buf, d) ==
    LET end == Min(offset + Len(buf), di.size)
    IN IF offset >= end THEN [disk |-> d, n |-> 0]
       ELSE LET addr(p) == (p \div BLOCK_SZ) * BLOCK_SZ + (p % BLOCK_SZ)
                touched == {addr(p) : p \in offset..(end - 1)}
            IN [disk |-> [x \in DOMAIN d \cup touched |->
                            IF x \in touched THEN buf[x - addr(offset) + 1] ELSE d[x]],
                n |-> end - offset]

\* DirEntry::new(name, inode_number).as_bytes()
DirEntry_bytes(name, inode_number) ==
    [i \in 1..(NAME_LENGTH_LIMIT + 1) |-> IF i <= Len(name) THEN name[i] ELSE 0] \o LE32(inode_number)

\* DirEntry::name: the bytes before the first NUL
DirEntry_name(bytes) ==
    LET len == CHOOSE n \in 0..NAME_LENGTH_LIMIT :
                   bytes[n + 1] = 0 /\ \A m \in 1..n : bytes[m] # 0
    IN SubSeq(bytes, 1, len)

\* DirEntry::inode_number
DirEntry_inode_number(bytes) ==
    bytes[29] + bytes[30] * 256 + bytes[31] * 65536 + bytes[32] * 16777216

\* Inode::find_inode_id: the inode id of the first entry called name, or NONE
\* (within the bounds the directory never becomes DIRENTRY_SZ bytes long, so every
\* read_at of an entry that happens returns a whole entry)
find_inode_id(name, di, d) ==
    LET file_count == di.size \div DIRENTRY_SZ
        hits == {i \in 0..(file_count - 1) :
                    DirEntry_name(DiskInode_read_at(di, i * DIRENTRY_SZ, DIRENTRY_SZ, d)) = name}
    IN IF hits = {} THEN NONE
       ELSE LET i == CHOOSE h \in hits : \A g \in hits : h <= g
            IN DirEntry_inode_number(DiskInode_read_at(di, i * DIRENTRY_SZ, DIRENTRY_SZ, d))

\* Inode::ls: the names of the entries, in directory order
Inode_ls(di, d) ==
    LET file_count == di.size \div DIRENTRY_SZ
    IN [i \in 1..file_count |->
           DirEntry_name(DiskInode_read_at(di, (i - 1) * DIRENTRY_SZ, DIRENTRY_SZ, d))]

FsNoCall == [op |-> "none"]

FsInit ==
    /\ disk = [a \in 0..(Len(SuperBlockBytes) - 1) |-> SuperBlockBytes[a + 1]]
    /\ inodeBits = {0}
    /\ dinode = [i \in {0} |-> DiskInode_initialize("Directory")]
    /\ ind = <<>>
    /\ dataBits = {}
    /\ fsFresh = {}
    /\ fsLast = FsNoCall
    /\ fsOps = 0
    /\ fsOwned = [i \in {0} |-> {}]

\* Inode::create(name) on the root directory
FsCreate(name) ==
    /\ fsOps < MaxFsOps
    /\ Cardinality(inodeBits) <= MaxFiles
    /\ fsOps' = fsOps + 1
    /\ IF find_inode_id(name, dinode[0], disk) # NONE
       THEN /\ fsLast' = [op |-> "create", name |-> name, ret |-> NONE,
                          ls_before |-> Inode_ls(dinode[0], disk), bits_before |-> inodeBits]
            /\ UNCHANGED <<disk, dinode, ind, inodeBits, dataBits, fsFresh, fsOwned>>
       ELSE LET new_node_id == Bitmap_alloc(inodeBits)
                root == dinode[0]
                file_count == root.size \div DIRENTRY_SZ
                new_size == (file_count + 1) * DIRENTRY_SZ
                g == Inode_increase_size(root, new_size, dataBits, ind)
                w == DiskInode_write_at(g.di, file_count * DIRENTRY_SZ,
                                        DirEntry_bytes(name, new_node_id), disk)
            IN /\ inodeBits' = inodeBits \cup {new_node_id}
               /\ dinode' = [i \in DOMAIN dinode \cup {new_node_id} |->
                                IF i = 0 THEN g.di
                                ELSE IF i = new_node_id THEN DiskInode_initialize("File")
                                ELSE dinode[i]]
               /\ ind' = g.ind
               /\ dataBits' = g.bits
               /\ disk' = w.disk
               /\ fsFresh' = fsFresh \cup {new_node_id}
               /\ fsOwned' = [i \in DOMAIN fsOwned \cup {new_node_id} |->
                                 IF i = 0 THEN fsOwned[0] \cup (g.bits \ dataBits)
                                 ELSE IF i = new_node_id THEN {}
                                 ELSE fsOwned[i]]
               /\ fsLast' = [op |-> "create", name |-> name, ret |-> new_node_id,
                             ls_before |-> Inode_ls(dinode[0], disk), bits_before |-> inodeBits]

Create(name) == FsFrame /\ FsCreate(name)

\* Inode::write_at(offset, buf) on a file
FsWriteAt(ino, offset, buf) ==
    /\ fsOps < MaxFsOps
    /\ ino \in DOMAIN dinode /\ ino # 0
    /\ fsOps' = fsOps + 1
    /\ LET g == Inode_increase_size(dinode[ino], offset + Len(buf), dataBits, ind)
           w == DiskInode_write_at(g.di, offset, buf, disk)
       IN /\ dinode' = [dinode EXCEPT ![ino] = g.di]
          /\ ind' = g.ind
          /\ dataBits' = g.bits
          /\ disk' = w.disk
          /\ fsFresh' = fsFresh \ {ino}
          /\ fsOwned' = [fsOwned EXCEPT ![ino] = @ \cup (g.bits \ dataBits)]
          /\ fsLast' = [op |-> "write", ino |-> ino, offset |-> offset, buf |-> buf,
                        ret |-> w.n, old_size |-> dinode[ino].size,
                        fresh |-> ino \in fsFresh]
    /\ UNCHANGED inodeBits

WriteAt(ino, offset, buf) == FsFrame /\ FsWriteAt(ino, offset, buf)

\* Inode::read_at(offset, buf) on a file, with |buf| = len
FsReadAt(ino, offset, len) ==
    /\ fsOps < MaxFsOps
    /\ ino \in DOMAIN dinode /\ ino # 0
    /\ fsOps' = fsOps + 1
    /\ LET out == DiskInode_read_at(dinode[ino], offset, len, disk)
       IN fsLast' = [op |-> "read", ino |-> ino, offset |-> offset, len |-> len,
                     ret |-> Len(out), out |-> out,
                     \* the call before was write_at(0, wbuf) on this file, then fresh
                     after_fresh_write |-> /\ fsLast.op = "write"
                                           /\ fsLast.ino = ino
                                           /\ fsLast.offset = 0
                                           /\ fsLast.fresh,
                     wbuf |-> IF fsLast.op = "write" THEN fsLast.buf ELSE <<>>]
    /\ UNCHANGED <<disk, dinode, ind, inodeBits, dataBits, fsFresh, fsOwned>>

ReadAt(ino, offset, len) == FsFrame /\ FsReadAt(ino, offset, len)

\* a block viewed as an IndirectBlock by its number: block 0 is the super
\* block (a file of fewer than 284 blocks reaches no other block this way)
BlockView(iv, b) == IF b = 0 THEN SuperBlockWords ELSE IndGet(iv, b)

\* DiskInode::clear_size, the full leaves of the double-indirect root: each
\* leaf's id, then its 128 entries
RECURSIVE ClearLeaves(_, _, _, _)
ClearLeaves(i, a1, root, iv) ==
    IF i >= a1 THEN <<>>
    ELSE <<root[i]>> \o [j \in 1..INODE_INDIRECT1_COUNT |-> IndGet(iv, root[i])[j - 1]]
             \o ClearLeaves(i + 1, a1, root, iv)

\* DiskInode::clear_size: the inode and the indirect blocks afterwards, the
\* ids returned, and whether the assertion on the double-indirect range failed
DiskInode_clear_size(di, iv) ==
    LET d == data_blocks_of(di.size)
        n1 == Min(d, INODE_DIRECT_COUNT)
        v1 == [i \in 1..n1 |-> di.direct[i]]
        di1 == [di EXCEPT !.size = 0,
                          !.direct = [i \in 1..INODE_DIRECT_COUNT |->
                                         IF i <= n1 THEN 0 ELSE di.direct[i]]]
    IN IF d <= INODE_DIRECT_COUNT
       THEN [di |-> di1, ind |-> iv, v |-> v1, panic |-> FALSE]
       ELSE
        LET d2 == d - INODE_DIRECT_COUNT
            n2 == Min(d2, INODE_INDIRECT1_COUNT)
            block == IndGet(iv, di.indirect1)
            v2 == v1 \o <<di.indirect1>> \o [j \in 1..n2 |-> block[j - 1]]
            iv2 == IndPut(iv, di.indirect1,
                          [j \in 0..(INODE_INDIRECT1_COUNT - 1) |-> IF j < n2 THEN 0 ELSE block[j]])
            di2 == [di1 EXCEPT !.indirect1 = 0]
        IN IF d2 <= INODE_INDIRECT1_COUNT
           THEN [di |-> di2, ind |-> iv2, v |-> v2, panic |-> FALSE]
           ELSE
            LET d3 == d2 - INODE_INDIRECT1_COUNT
                a1 == d3 \div INODE_INDIRECT1_COUNT
                b1 == d3 % INODE_INDIRECT1_COUNT
                root == IndGet(iv2, di.indirect2)
                part == IF b1 > 0
                        THEN <<root[a1]>> \o [j \in 1..b1 |-> BlockView(iv2, a1)[j - 1]]
                        ELSE <<>>
            IN IF d3 > INODE_INDIRECT1_COUNT * INODE_INDIRECT1_COUNT
               THEN [di |-> di2, ind |-> iv2, v |-> v2 \o <<di.indirect2>>, panic |-> TRUE]
               ELSE [di |-> [di2 EXCEPT !.indirect2 = 0], ind |-> iv2,
                     v |-> v2 \o <<di.indirect2>> \o ClearLeaves(0, a1, root, iv2) \o part,
                     panic |-> FALSE]

\* EasyFileSystem::dealloc_data on each id of v from the k-th on: the bitmap
\* afterwards; Bitmap::dealloc asserts that the bit is set, and an id below
\* the data area has no bit
RECURSIVE dealloc_data_all(_, _, _)
dealloc_data_all(v, k, bits) ==
    IF k > Len(v) THEN [bits |-> bits, panic |-> FALSE]
    ELSE IF v[k] < data_area_start_block \/ (v[k] - data_area_start_block) \notin bits
    THEN [bits |-> bits, panic |-> TRUE]
    ELSE dealloc_data_all(v, k + 1, bits \ {v[k] - data_area_start_block})

\* Inode::clear
Inode_clear(di, iv, bits) ==
    LET c == DiskInode_clear_size(di, iv)
        f == dealloc_data_all(c.v, 1, bits)
    IN IF c.panic \/ Len(c.v) # total_blocks(di.size)
       THEN [di |-> c.di, ind |-> c.ind, bits |-> bits, v |-> c.v, panic |-> TRUE]
       ELSE [di |-> c.di, ind |-> c.ind, bits |-> f.bits, v |-> c.v, panic |-> f.panic]

\* Inode::clear on a file
FsClear(ino) ==
    /\ fsOps < MaxFsOps
    /\ ino \in DOMAIN dinode /\ ino # 0
    /\ fsOps' = fsOps + 1
    /\ LET c == Inode_clear(dinode[ino], ind, dataBits)
       IN /\ dinode' = [dinode EXCEPT ![ino] = c.di]
          /\ ind' = c.ind
          /\ dataBits' = c.bits
          /\ fsOwned' = [fsOwned EXCEPT ![ino] = @ \cap c.bits]
          /\ fsLast' = [op |-> "clear", ino |-> ino, old_size |-> dinode[ino].size,
                        freed |-> c.v, owned |-> fsOwned[ino], panic |-> c.panic]
    /\ UNCHANGED <<disk, inodeBits, fsFresh>>

Clear(ino) == FsFrame /\ FsClear(ino)

(***************************************************************************)
(* easy-fs: the block cache                                                *)
(***************************************************************************)

\* ---- bounds of the block cache model ----
MaxHandles == 2      \* Arc clones held by callers at one time
MaxCacheOps == 5     \* cache calls in one behaviour
MaxNewBlocks == 2    \* block ids beyond those a full queue starts with
MaxVal == 1          \* contents a caller writes are 1..MaxVal; the device starts zeroed

BLOCK_CACHE_SIZE == 16

CacheBlocks == 0..(BLOCK_CACHE_SIZE + MaxNewBlocks - 1)
GetIds == {0, 1} \cup {BLOCK_CACHE_SIZE + k : k \in 0..(MaxNewBlocks - 1)}

\* the queue after get_block_cache of blocks 0..n-1 of a zeroed device, each
\* handle dropped again (extra = 0) or kept by a long-lived holder (extra = 1)
Prefilled(n, extra) ==
    [i \in 1..n |-> [block_id |-> i - 1, eid |-> i, data |-> 0, modified |-> FALSE, extra |-> extra]]

\* the queue after get_block_cache of blocks 0..n-1, the handles of the first k
\* kept by long-lived holders and the others dropped again
PrefilledPinned(n, k) ==
    [i \in 1..n |-> [block_id |-> i - 1, eid |-> i, data |-> 0, modified |-> FALSE,
                     extra |-> IF i <= k THEN 1 ELSE 0]]

\* Arc::strong_count of the entry with identity eid
strong_count_manager_only(q, hs, eid) == 1
strong_count(q, hs, eid) ==
    1 + Cardinality({h \in DOMAIN hs : hs[h].eid = eid})
      + (LET es == {i \in 1..Len(q) : q[i].eid = eid}
         IN IF es = {} THEN 0 ELSE q[CHOOSE i \in es : TRUE].extra)

\* queue.iter().find(|pair| pair.0 == block_id): index of the first entry, or 0
find_block_never(q, block_id) == 0
find_block(q, block_id) ==
    LET hits == {i \in 1..Len(q) : q[i].block_id = block_id}
    IN IF hits = {} THEN 0 ELSE CHOOSE i \in hits : \A j \in hits : i <= j

\* queue.iter().enumerate().find(|(_, pair)| Arc::strong_count(&pair.1) == 1)
find_victim_last(q, hs) ==
    LET free == {i \in 1..Len(q) : strong_count(q, hs, q[i].eid) = 1}
    IN IF free = {} THEN 0 ELSE CHOOSE i \in free : \A j \in free : i >= j
find_victim(q, hs) ==
    LET free == {i \in 1..Len(q) : strong_count(q, hs, q[i].eid) = 1}
    IN IF free = {} THEN 0 ELSE CHOOSE i \in free : \A j \in free : i <= j

\* queue.drain(idx..=idx)
drain_nothing(q, idx) == q
drain(q, idx) == SubSeq(q, 1, idx - 1) \o SubSeq(q, idx + 1, Len(q))

\* BlockCache::sync: the write_block calls it makes
sync_never(e) == <<>>
sync(e) == IF e.modified THEN <<[block_id |-> e.block_id, data |-> e.data]>> ELSE <<>>

\* BlockCache::sync, from BlockCache::drop: the device after the entry is dropped
sync_to(d, e) ==
    LET w == sync(e)
    IN IF w = <<>> THEN d ELSE [d EXCEPT ![w[1].block_id] = w[1].data]

CacheNoCall == [op |-> "none"]
NoHandle == [eid |-> 0, block_id |-> 0]

\* the manager with queue q, no caller holding a handle of its own
CacheStart(q) ==
    /\ queue = q
    /\ nextEid = Len(q) + 1
    /\ handles = [h \in 1..MaxHandles |-> NoHandle]
    /\ dev = [b \in CacheBlocks |-> 0]
    /\ latest = [b \in CacheBlocks |-> 0]
    /\ cachePanicked = FALSE
    /\ cacheLast = CacheNoCall
    /\ cacheOps = 0

\* BlockCacheManager::new
CacheInit == CacheStart(<<>>)

\* the cache empty, one short of full, full, full with every entry held, and
\* full with every entry but the last held
CacheStarts ==
    {Prefilled(0, 0), Prefilled(BLOCK_CACHE_SIZE - 1, 0),
     Prefilled(BLOCK_CACHE_SIZE, 0), Prefilled(BLOCK_CACHE_SIZE, 1),
     PrefilledPinned(BLOCK_CACHE_SIZE, BLOCK_CACHE_SIZE - 1)}

FreeSlots == {h \in DOMAIN handles : handles[h] = NoHandle}

\* get_block_cache(block_id, device); the caller keeps the Arc returned
CacheGet(block_id) ==
    /\ CacheFrame
    /\ ~cachePanicked
    /\ cacheOps < MaxCacheOps
    /\ FreeSlots # {}
    /\ cacheOps' = cacheOps + 1
    /\ LET h == CHOOSE f \in FreeSlots : \A g \in FreeSlots : f <= g
           idx == find_block(queue, block_id)
           was_cached == \E i \in 1..Len(queue) : queue[i].block_id = block_id
           rec == [op |-> "get", block_id |-> block_id, was_cached |-> was_cached,
                   queue_before |-> queue, dev_writes |-> <<>>]
       IN IF idx # 0
          THEN /\ handles' = [handles EXCEPT ![h] = [eid |-> queue[idx].eid, block_id |-> block_id]]
               /\ cacheLast' = rec @@ [ret |-> queue[idx].eid, dev_read |-> FALSE, slot |-> h]
               /\ UNCHANGED <<queue, dev, nextEid, cachePanicked, latest>>
          ELSE LET full == Len(queue) = BLOCK_CACHE_SIZE
                   v == find_victim(queue, handles)
               IN IF full /\ v = 0
                  THEN /\ cachePanicked' = TRUE
                       /\ cacheLast' = rec @@ [ret |-> 0, dev_read |-> FALSE, slot |-> 0]
                       /\ UNCHANGED <<queue, handles, dev, nextEid, latest>>
                  ELSE LET q1 == IF full THEN drain(queue, v) ELSE queue
                           d1 == IF full THEN sync_to(dev, queue[v]) ELSE dev
                           e == [block_id |-> block_id, eid |-> nextEid, data |-> d1[block_id],
                                 modified |-> FALSE, extra |-> 0]
                       IN /\ queue' = Append(q1, e)
                          /\ dev' = d1
                          /\ nextEid' = nextEid + 1
                          /\ handles' = [handles EXCEPT ![h] = [eid |-> nextEid, block_id |-> block_id]]
                          /\ cacheLast' = [rec EXCEPT !.dev_writes = IF full THEN sync(queue[v])
                                                                         ELSE <<>>]
                                           @@ [ret |-> nextEid, dev_read |-> TRUE, slot |-> h]
                          /\ UNCHANGED <<cachePanicked, latest>>

\* handle.lock().modify(0, |x| *x = v)
CacheModify(h, v) ==
    /\ CacheFrame
    /\ ~cachePanicked
    /\ cacheOps < MaxCacheOps
    /\ handles[h] # NoHandle
    /\ cacheOps' = cacheOps + 1
    /\ queue' = [i \in 1..Len(queue) |->
                    IF queue[i].eid = handles[h].eid
                    THEN [queue[i] EXCEPT !.data = v, !.modified = TRUE] ELSE queue[i]]
    /\ latest' = [latest EXCEPT ![handles[h].block_id] = v]
    /\ cacheLast' = [op |-> "modify", block_id |-> handles[h].block_id, slot |-> h, val |-> v]
    /\ UNCHANGED <<handles, dev, nextEid, cachePanicked>>

\* handle.lock().read(0, |x| *x)
CacheRead(h) ==
    /\ CacheFrame
    /\ ~cachePanicked
    /\ cacheOps < MaxCacheOps
    /\ handles[h] # NoHandle
    /\ cacheOps' = cacheOps + 1
    /\ LET es == {i \in 1..Len(queue) : queue[i].eid = handles[h].eid}
       IN cacheLast' = [op |-> "read", block_id |-> handles[h].block_id, slot |-> h,
                        val |-> queue[CHOOSE i \in es : TRUE].data]
    /\ UNCHANGED <<queue, handles, dev, nextEid, cachePanicked, latest>>

\* drop(handle): the queue still holds the entry, so the BlockCache lives on
CacheDrop(h) ==
    /\ CacheFrame
    /\ ~cachePanicked
    /\ cacheOps < MaxCacheOps
    /\ handles[h] # NoHandle
    /\ cacheOps' = cacheOps + 1
    /\ handles' = [handles EXCEPT ![h] = NoHandle]
    /\ cacheLast' = [op |-> "drop", block_id |-> handles[h].block_id, slot |-> h]
    /\ UNCHANGED <<queue, dev, nextEid, cachePanicked, latest>>

CacheNext ==
    \/ \E block_id \in GetIds : CacheGet(block_id)
    \/ \E h \in 1..MaxHandles, v \in 1..MaxVal : CacheModify(h, v)
    \/ \E h \in 1..MaxHandles : CacheRead(h)
    \/ \E h \in 1..MaxHandles : CacheDrop(h)


(***************************************************************************)
(* os: tasks, the scheduler and pipes                                      *)
(*                                                                         *)
(* One hart; the kernel runs with interrupts off, so a step is one kernel  *)
(* entry (a system call, a timer interrupt, an iteration of the idle       *)
(* loop) carried through to the point where the kernel leaves: the return  *)
(* to user mode, or the switch to the idle loop.                           *)
(*                                                                         *)
(* task/mod.rs under src/ is the table-driven scheduler of an earlier      *)
(* design: its exit_current_and_run_next takes no exit code and nothing in *)
(* it knows the ready queue, while every caller under src/ (sys_exit,      *)
(* sys_fork, sys_waitpid, Pipe::read, main) is written against the later   *)
(* one.  The glue those callers use, suspend_current_and_run_next,         *)
(* exit_current_and_run_next(code) and add_initproc, is modelled here from *)
(* its description (section 4.10), on top of the pieces that are under     *)
(* src/: TaskManager, Processor, PidAllocator, TCB.                        *)
(***************************************************************************)

\* ---- bounds of the os model ----
MaxTasks == 3        \* live TCBs when tasks only fork, exit and wait
MaxPipeTasks == 2    \* live TCBs when tasks use a pipe
MaxPipes == 1        \* sys_pipe calls in one behaviour
MaxCode == 1         \* exit codes handed to sys_exit are 0..MaxCode
MaxSent == 33        \* bytes handed to sys_write in one behaviour
MaxRead == 16        \* the buffer length handed to sys_read, and the shorter write

RING_BUFFER_SIZE == 32

INITPROC == 0        \* the pid add_initproc's TCB::new is given: the first one

\* ---- files ----
NoFile == [kind |-> "none", pipe |-> 0]
Stdin == [kind |-> "stdin", pipe |-> 0]
Stdout == [kind |-> "stdout", pipe |-> 0]
ReadEnd(pp) == [kind |-> "pipe_r", pipe |-> pp]
WriteEnd(pp) == [kind |-> "pipe_w", pipe |-> pp]

\* what a suspended task's kernel stack holds of the call it is in
NoCont == [op |-> "none", file |-> NoFile, want |-> 0, data |-> <<>>, done |-> 0]

\* ---- PidAllocator ----
\* PidAllocator::alloc: the pid, and the allocator afterwards
pid_alloc(cur, rec) ==
    IF Len(rec) > 0
    THEN [pid |-> rec[Len(rec)], current |-> cur, recycled |-> SubSeq(rec, 1, Len(rec) - 1)]
    ELSE [pid |-> cur, current |-> cur + 1, recycled |-> rec]

\* PidAllocator::dealloc (a TCB that is dropped holds a pid it was given)
pid_dealloc(rec, pid) == Append(rec, pid)

\* ---- TCB ----
\* TCB::new: the fields of TCBInner the model keeps, then a0 (x[10] of the trap
\* context), the user's exit-code word and fds array, and the kernel stack
TCB_new_running ==
    [task_status |-> "Running", parent |-> NONE, children |-> <<>>, exit_code |-> 0,
     fd_table |-> <<Stdin, Stdout, Stdout>>,
     a0 |-> 0, ucode |-> 0, ufds |-> <<0, 0>>, kcont |-> NoCont]
TCB_new ==
    [task_status |-> "Ready", parent |-> NONE, children |-> <<>>, exit_code |-> 0,
     fd_table |-> <<Stdin, Stdout, Stdout>>,
     a0 |-> 0, ucode |-> 0, ufds |-> <<0, 0>>, kcont |-> NoCont]

\* TCB::fork: the child of the task with pid `parent`
TCB_fork_new_table(ptcb, parent) ==
    [task_status |-> "Ready", parent |-> parent, children |-> <<>>, exit_code |-> 0,
     fd_table |-> <<Stdin, Stdout, Stdout>>,
     a0 |-> ptcb.a0, ucode |-> ptcb.ucode, ufds |-> ptcb.ufds, kcont |-> NoCont]
TCB_fork(ptcb, parent) ==
    [task_status |-> "Ready", parent |-> parent, children |-> <<>>, exit_code |-> 0,
     fd_table |-> [i \in 1..Len(ptcb.fd_table) |-> ptcb.fd_table[i]],
     a0 |-> ptcb.a0, ucode |-> ptcb.ucode, ufds |-> ptcb.ufds, kcont |-> NoCont]

\* a table that always grows: the slot is a new one at the end
alloc_fd_push(fd_table) ==
    [fd |-> Len(fd_table) + 1, fd_table |-> Append(fd_table, NoFile)]

\* TCBInner::alloc_fd: the index (from 1) of the slot, and the table with it
alloc_fd(fd_table) ==
    LET free == {i \in 1..Len(fd_table) : fd_table[i] = NoFile}
    IN IF free # {}
       THEN [fd |-> CHOOSE i \in free : \A j \in free : i <= j, fd_table |-> fd_table]
       ELSE [fd |-> Len(fd_table) + 1, fd_table |-> Append(fd_table, NoFile)]

\* ---- TaskManager ----
\* TaskManager::add
add_front(q, pid) == <<pid>> \o q
add(q, pid) == Append(q, pid)

\* a fetch that hands out the front TCB and keeps an Arc of it at the back
fetch_requeue(q) == [pid |-> Head(q), queue |-> Append(Tail(q), Head(q))]
\* TaskManager::fetch: the queue is not empty
fetch(q) == [pid |-> Head(q), queue |-> Tail(q)]

\* the ready queue as a set
InQueue(q) == {q[i] : i \in 1..Len(q)}

\* ---- spin locks ----
InnerLock(pid) == <<"inner", pid>>
BufferLock(pp) == <<"buffer", pp>>

\* the lock is free or not
Held(ls, l) == \E x \in ls : x.lock = l

\* Mutex::lock by task p, of a free lock
Acquire(ls, l, p) == ls \cup {[lock |-> l, by |-> p]}

\* a guard going out of scope
Release(ls, l) == {x \in ls : x.lock # l}

\* drop(ring_buffer) before suspend_current_and_run_next (pipe.rs:142, 171)
drop_ring_buffer_forgotten(ls, l) == ls
drop_ring_buffer(ls, l) == Release(ls, l)

\* drop(inner) in sys_read and sys_write, before the file is read or written
drop_inner_forgotten(ls, l) == ls
drop_inner(ls, l) == Release(ls, l)

\* ---- PipeRingBuffer ----
\* PipeRingBuffer::new
PipeRingBuffer_new ==
    [arr |-> [i \in 0..(RING_BUFFER_SIZE - 1) |-> 0], head |-> 0, tail |-> 0, status |-> "EMPTY"]

available_read(rb) ==
    IF rb.status = "EMPTY" THEN 0
    ELSE IF rb.tail > rb.head THEN rb.tail - rb.head
    ELSE rb.tail + RING_BUFFER_SIZE - rb.head

available_write(rb) ==
    IF rb.status = "FULL" THEN 0 ELSE RING_BUFFER_SIZE - available_read(rb)

\* PipeRingBuffer::read_byte: the byte, and the ring afterwards
read_byte_stay(rb) == [c |-> rb.arr[rb.head], rb |-> rb]
read_byte(rb) ==
    LET head == (rb.head + 1) % RING_BUFFER_SIZE
    IN [c |-> rb.arr[rb.head],
        rb |-> [rb EXCEPT !.head = head,
                          !.status = IF head = rb.tail THEN "EMPTY" ELSE "NORMAL"]]

\* a write_byte that never marks the ring FULL
write_byte_normal(rb, c) ==
    [rb EXCEPT !.arr[rb.tail] = c, !.tail = (rb.tail + 1) % RING_BUFFER_SIZE,
               !.status = "NORMAL"]
\* PipeRingBuffer::write_byte
write_byte(rb, c) ==
    LET tail == (rb.tail + 1) % RING_BUFFER_SIZE
    IN [rb EXCEPT !.arr[rb.tail] = c, !.tail = tail,
                  !.status = IF rb.head = tail THEN "FULL" ELSE "NORMAL"]

\* the ring after n calls of read_byte
RECURSIVE after_reads(_, _)
after_reads(rb, n) == IF n = 0 THEN rb ELSE read_byte(after_reads(rb, n - 1)).rb

\* n calls of read_byte: the bytes in order, and the ring afterwards
read_bytes(rb, n) ==
    [bytes |-> [i \in 1..n |-> read_byte(after_reads(rb, i - 1)).c], rb |-> after_reads(rb, n)]

\* write_byte of each of the first n bytes of data in turn
RECURSIVE write_bytes(_, _, _)
write_bytes(rb, data, n) ==
    IF n = 0 THEN rb ELSE write_byte(write_bytes(rb, data, n - 1), data[n])

\* the bytes in the ring, oldest first
Contents(rb) == read_bytes(rb, available_read(rb)).bytes

\* Pipe::read from the top of its loop, with `done` bytes put into the user's
\* buffer already: how it leaves ("return" or "suspend"), the ring, read_size,
\* the bytes moved from the ring to the buffer on the way
RECURSIVE Pipe_read(_, _, _, _, _)
Pipe_read(rb, closed, want, done, taken) ==
    LET loop_read == available_read(rb)
    IN IF loop_read = 0
       THEN [out |-> IF closed THEN "return" ELSE "suspend", rb |-> rb, done |-> done, taken |-> taken]
       ELSE LET n == Min(loop_read, want - done)
                r == read_bytes(rb, n)
            IN IF want - done < loop_read
               THEN [out |-> "return", rb |-> r.rb, done |-> done + n, taken |-> taken \o r.bytes]
               ELSE Pipe_read(r.rb, closed, want, done + n, taken \o r.bytes)

\* Pipe::write from the top of its loop, with `data` still to write and `done`
\* bytes written already
RECURSIVE Pipe_write(_, _, _, _)
Pipe_write(rb, data, done, put) ==
    LET loop_write == available_write(rb)
    IN IF loop_write = 0
       THEN [out |-> "suspend", rb |-> rb, data |-> data, done |-> done, put |-> put]
       ELSE LET n == Min(loop_write, Len(data))
                now == SubSeq(data, 1, n)
                rest == SubSeq(data, n + 1, Len(data))
            IN IF Len(data) < loop_write
               THEN [out |-> "return", rb |-> write_bytes(rb, data, n), data |-> rest,
                     done |-> done + n, put |-> put \o now]
               ELSE Pipe_write(write_bytes(rb, data, n), rest, done + n, put \o now)

\* Arc::strong_count of the write end of pipe pp: the fd table slots that hold it
\* in every TCB there is, and the clone each task inside sys_write holds
WriteRefs(t, pp) ==
    LET slots(p) == Cardinality({i \in 1..Len(t[p].fd_table) : t[p].fd_table[i] = WriteEnd(pp)})
        inside(p) == IF t[p].kcont.op = "write" /\ t[p].kcont.file = WriteEnd(pp) THEN 1 ELSE 0
        RECURSIVE Sum(_)
        Sum(ps) == IF ps = {} THEN 0
                   ELSE LET p == CHOOSE x \in ps : TRUE
                        IN slots(p) + inside(p) + Sum(ps \ {p})
    IN Sum(DOMAIN t)

\* PipeRingBuffer::all_write_ends_closed
all_write_ends_closed_unchecked(t, pp) == TRUE
all_write_ends_closed(t, pp) == WriteRefs(t, pp) = 0

\* ---- the scheduler glue (section 4.10) ----
\* what a kernel entry of task p leaves behind: the TCBs, the pipes, the locks
\* still held, how the kernel stopped if it did, and whether it returns to user
\* mode ("return") or has called suspend_current_and_run_next ("suspend")
Leave(out, t, ps, ls, halt, taken, put, pp) ==
    [out |-> out, tcb |-> t, pipes |-> ps, locks |-> ls, halt |-> halt,
     taken |-> taken, put |-> put, pipe |-> pp]

Returns(t, ls) == Leave("return", t, pipes, ls, "no", <<>>, <<>>, 0)

\* suspend_current_and_run_next, from the task p that is current: take current,
\* mark it Ready under its inner lock, push it onto the ready queue q, schedule
Suspended(p, r, q, ah) ==
    IF Held(r.locks, InnerLock(p))
    THEN /\ khalt' = "hang"
         /\ tcb' = r.tcb
         /\ current' = p
         /\ ready_queue' = q
         /\ ahead' = ah
    ELSE /\ khalt' = "no"
         /\ tcb' = [r.tcb EXCEPT ![p].task_status = "Ready"]
         /\ ready_queue' = add(q, p)
         /\ ahead' = [ah EXCEPT ![p] = InQueue(q)]
         /\ current' = NONE

\* the end of a kernel entry of the task p that is current, the ready queue
\* being q: back to user mode, every guard of the call out of scope, or into
\* suspend_current_and_run_next
Finish(p, r, q, ah) ==
    /\ pipes' = r.pipes
    /\ delivered' = IF r.taken = <<>> THEN delivered
                    ELSE [delivered EXCEPT ![r.pipe] = @ \o r.taken]
    /\ written' = IF r.put = <<>> THEN written
                  ELSE [written EXCEPT ![r.pipe] = @ \o r.put]
    /\ IF r.halt # "no"
       THEN /\ khalt' = r.halt
            /\ locks' = r.locks
            /\ tcb' = r.tcb
            /\ current' = p
            /\ ready_queue' = q
            /\ ahead' = ah
       ELSE IF r.out = "suspend"
       THEN /\ locks' = r.locks
            /\ Suspended(p, r, q, ah)
       ELSE /\ khalt' = "no"
            /\ locks' = Release(r.locks, InnerLock(p))
            /\ tcb' = r.tcb
            /\ current' = p
            /\ ready_queue' = q
            /\ ahead' = ah

\* ---- Pipe::read and Pipe::write, entered or resumed by task p ----
\* k is what the call keeps on the kernel stack: the file, the length of the
\* buffer to read into, the bytes still to write, the bytes read or written
PipeIO(p, t, k, ls, q, ah) ==
    LET pp == k.file.pipe
        ls1 == Acquire(ls, BufferLock(pp), p)
    IN IF Held(ls, BufferLock(pp))
       THEN Finish(p, Leave("return", t, pipes, ls, "hang", <<>>, <<>>, pp), q, ah)
       ELSE IF k.op = "read"
       THEN \E r \in {Pipe_read(pipes[pp], all_write_ends_closed(t, pp), k.want, k.done, <<>>)} :
               IF r.out = "return"
               THEN Finish(p, Leave("return", [t EXCEPT ![p].a0 = r.done, ![p].kcont = NoCont],
                                    [pipes EXCEPT ![pp] = r.rb], Release(ls1, BufferLock(pp)),
                                    "no", r.taken, <<>>, pp), q, ah)
               ELSE Finish(p, Leave("suspend", [t EXCEPT ![p].kcont = [k EXCEPT !.done = r.done]],
                                    [pipes EXCEPT ![pp] = r.rb],
                                    drop_ring_buffer(ls1, BufferLock(pp)),
                                    "no", r.taken, <<>>, pp), q, ah)
       ELSE \E w \in {Pipe_write(pipes[pp], k.data, k.done, <<>>)} :
               IF w.out = "return"
               THEN Finish(p, Leave("return", [t EXCEPT ![p].a0 = w.done, ![p].kcont = NoCont],
                                    [pipes EXCEPT ![pp] = w.rb], Release(ls1, BufferLock(pp)),
                                    "no", <<>>, w.put, pp), q, ah)
               ELSE Finish(p, Leave("suspend",
                                    [t EXCEPT ![p].kcont = [k EXCEPT !.data = w.data,
                                                                     !.done = w.done]],
                                    [pipes EXCEPT ![pp] = w.rb],
                                    drop_ring_buffer(ls1, BufferLock(pp)),
                                    "no", <<>>, w.put, pp), q, ah)

\* sys_read / sys_write: the fd is checked and the file cloned under the
\* caller's inner lock, which is dropped before the file is read or written.
\* Reading a write end or writing a read end fails the assertion in Pipe.
FileIO(p, op, fd, want, data) ==
    LET ls1 == Acquire(locks, InnerLock(p), p)
        ft == tcb[p].fd_table
    IN IF fd >= Len(ft)
       THEN Finish(p, Returns([tcb EXCEPT ![p].a0 = 0 - 1], ls1), ready_queue, ahead)
       ELSE IF ft[fd + 1] = NoFile
       THEN Finish(p, Returns([tcb EXCEPT ![p].a0 = 0 - 1], ls1), ready_queue, ahead)
       ELSE LET file == ft[fd + 1]
                ls2 == drop_inner(ls1, InnerLock(p))
                k == [op |-> op, file |-> file, want |-> want, data |-> data, done |-> 0]
            IN IF file.kind # (IF op = "read" THEN "pipe_r" ELSE "pipe_w")
               THEN Finish(p, Leave("return", tcb, pipes, ls2, "panic", <<>>, <<>>, 0),
                           ready_queue, ahead)
               ELSE PipeIO(p, tcb, k, ls2, ready_queue, ahead)

\* task p is current, in user mode
InUser(p) == khalt = "no" /\ p # NONE /\ current = p

\* ---- Processor::run: one turn of the idle loop, and the task it switches to
\* carrying on in the kernel from where it called schedule ----
Run ==
    /\ OsFrame
    /\ khalt = "no"
    /\ current = NONE
    /\ ready_queue # <<>>
    /\ LET f == fetch(ready_queue)
           p == f.pid
           k == tcb[p].kcont
           t == [tcb EXCEPT ![p].task_status = "Running"]
           ah == [q \in DOMAIN ahead |-> ahead[q] \ {p}]
       IN IF Held(locks, InnerLock(p))
          \* task.acquire_inner_lock() spins
          THEN /\ khalt' = "hang"
               /\ UNCHANGED <<tcb, ready_queue, current, ahead, locks, pipes, delivered, written>>
          ELSE IF k.op \in {"read", "write"}
          THEN PipeIO(p, t, k, locks, f.queue, ah)
          ELSE IF k.op = "yield"
          THEN Finish(p, Returns([t EXCEPT ![p].a0 = 0, ![p].kcont = NoCont], locks), f.queue, ah)
          ELSE Finish(p, Returns([t EXCEPT ![p].kcont = NoCont], locks), f.queue, ah)
    /\ UNCHANGED <<pid_current, pid_recycled, nSent, s1Vars>>

\* ---- system calls and traps of the task p that is current ----
\* sys_yield
KYield(p) ==
    /\ OsFrame
    /\ InUser(p)
    /\ Finish(p, Leave("suspend", [tcb EXCEPT ![p].kcont = [NoCont EXCEPT !.op = "yield"]],
                       pipes, locks, "no", <<>>, <<>>, 0), ready_queue, ahead)
    /\ UNCHANGED <<pid_current, pid_recycled, nSent>>

\* trap_handler, Trap::Interrupt(Interrupt::SupervisorTimer)
KTimer(p) ==
    /\ OsFrame
    /\ InUser(p)
    /\ Finish(p, Leave("suspend", [tcb EXCEPT ![p].kcont = [NoCont EXCEPT !.op = "timer"]],
                       pipes, locks, "no", <<>>, <<>>, 0), ready_queue, ahead)
    /\ UNCHANGED <<pid_current, pid_recycled, nSent>>

\* exit_current_and_run_next(code), from the task p that is current: mark it
\* Zombie, record the code, hand its children to INITPROC, clear its children
\* list.  The TCBs afterwards.
exit_current_and_run_next(t, p, code) ==
    LET kids == t[p].children
    IN [q \in DOMAIN t |->
          IF q = p
          THEN [t[q] EXCEPT !.task_status = "Zombie", !.exit_code = code, !.children = <<>>]
          ELSE IF q = INITPROC
          THEN [t[q] EXCEPT !.children = @ \o kids]
          ELSE IF q \in InQueue(kids)
          THEN [t[q] EXCEPT !.parent = INITPROC]
          ELSE t[q]]

\* sys_exit(code).  The program of INITPROC never exits.
KExit(p, code) ==
    /\ OsFrame
    /\ InUser(p)
    /\ p # INITPROC
    /\ tcb' = exit_current_and_run_next(tcb, p, code)
    /\ current' = NONE
    /\ UNCHANGED <<pid_current, pid_recycled, ready_queue, pipes, locks, khalt, ahead,
                   written, delivered, nSent>>

\* sys_fork, with at most `limit` TCBs alive
KFork(p, limit) ==
    /\ OsFrame
    /\ InUser(p)
    /\ Cardinality(DOMAIN tcb) < limit
    /\ LET a == pid_alloc(pid_current, pid_recycled)
           new_pid == a.pid
           new_task == [TCB_fork(tcb[p], p) EXCEPT !.a0 = 0]
       IN /\ pid_current' = a.current
          /\ pid_recycled' = a.recycled
          /\ tcb' = [q \in DOMAIN tcb \cup {new_pid} |->
                       IF q = new_pid THEN new_task
                       ELSE IF q = p
                       THEN [tcb[p] EXCEPT !.children = Append(@, new_pid), !.a0 = new_pid]
                       ELSE tcb[q]]
          /\ ready_queue' = add(ready_queue, new_pid)
          /\ ahead' = [q \in DOMAIN ahead \cup {new_pid} |->
                          IF q = new_pid THEN InQueue(ready_queue) ELSE ahead[q]]
    /\ UNCHANGED <<current, pipes, locks, khalt, written, delivered, nSent>>

\* Arc::strong_count of the TCB of task c between kernel entries: the Arcs in
\* the ready queue, in the processor's current slot and in the children lists
TCB_strong_count(t, q, cur, c) ==
    Cardinality({i \in 1..Len(q) : q[i] = c})
    + (IF cur = c THEN 1 ELSE 0)
    + Cardinality(UNION {{<<p, i>> : i \in {j \in 1..Len(t[p].children) : t[p].children[j] = c}} :
                            p \in DOMAIN t})

\* the children of task p that sys_waitpid(pid, _) is about
Matching(t, p, pid) ==
    {i \in 1..Len(t[p].children) : pid = 0 - 1 \/ pid = t[p].children[i]}

\* the index sys_waitpid's second find stops at, or 0
first_zombie_any(t, p, pid) ==
    LET zs == {i \in 1..Len(t[p].children) : t[t[p].children[i]].task_status = "Zombie"}
    IN IF zs = {} THEN 0 ELSE CHOOSE i \in zs : \A j \in zs : i <= j
first_zombie(t, p, pid) ==
    LET zs == {i \in Matching(t, p, pid) : t[t[p].children[i]].task_status = "Zombie"}
    IN IF zs = {} THEN 0 ELSE CHOOSE i \in zs : \A j \in zs : i <= j

\* child.acquire_inner_lock().exit_code
child_exit_code_unread(t, child) == 0
child_exit_code(t, child) == t[child].exit_code

\* sys_waitpid(pid, exit_code_ptr)
KWaitpid(p, pid) ==
    /\ OsFrame
    /\ InUser(p)
    /\ LET idx == first_zombie(tcb, p, pid)
           kids == tcb[p].children
       IN IF Matching(tcb, p, pid) = {}
          THEN /\ tcb' = [tcb EXCEPT ![p].a0 = 0 - 1]
               /\ UNCHANGED <<pid_recycled, ahead, khalt>>
          ELSE IF idx = 0
          THEN /\ tcb' = [tcb EXCEPT ![p].a0 = 0 - 2]
               /\ UNCHANGED <<pid_recycled, ahead, khalt>>
          ELSE LET child == kids[idx]
                   rest == SubSeq(kids, 1, idx - 1) \o SubSeq(kids, idx + 1, Len(kids))
               IN IF child \in InQueue(ready_queue)
                  \* assert_eq!(Arc::strong_count(&child), 1)
                  THEN /\ khalt' = "panic"
                       /\ tcb' = [tcb EXCEPT ![p].children = rest]
                       /\ UNCHANGED <<pid_recycled, ahead>>
                  ELSE /\ tcb' = [q \in DOMAIN tcb \ {child} |->
                                    IF q = p
                                    THEN [tcb[p] EXCEPT !.children = rest,
                                                        !.ucode = child_exit_code(tcb, child),
                                                        !.a0 = child]
                                    ELSE tcb[q]]
                       /\ pid_recycled' = pid_dealloc(pid_recycled, child)
                       /\ ahead' = [q \in DOMAIN ahead \ {child} |-> ahead[q]]
                       /\ khalt' = khalt
    /\ UNCHANGED <<pid_current, ready_queue, current, pipes, locks, written, delivered, nSent>>

\* sys_pipe(pipe)
KPipe(p) ==
    /\ OsFrame
    /\ InUser(p)
    /\ Cardinality(DOMAIN pipes) < MaxPipes
    /\ LET pp == Cardinality(DOMAIN pipes) + 1
           r == alloc_fd(tcb[p].fd_table)
           t1 == [r.fd_table EXCEPT ![r.fd] = ReadEnd(pp)]
           w == alloc_fd(t1)
           t2 == [w.fd_table EXCEPT ![w.fd] = WriteEnd(pp)]
       IN /\ tcb' = [tcb EXCEPT ![p].fd_table = t2, ![p].ufds = <<r.fd - 1, w.fd - 1>>,
                                ![p].a0 = 0]
          /\ pipes' = [x \in DOMAIN pipes \cup {pp} |->
                          IF x = pp THEN PipeRingBuffer_new ELSE pipes[x]]
          /\ written' = [x \in DOMAIN pipes \cup {pp} |-> IF x = pp THEN <<>> ELSE written[x]]
          /\ delivered' = [x \in DOMAIN pipes \cup {pp} |-> IF x = pp THEN <<>> ELSE delivered[x]]
    /\ UNCHANGED <<pid_current, pid_recycled, ready_queue, current, locks, khalt, ahead, nSent>>

\* sys_close(fd)
KClose(p, fd) ==
    /\ OsFrame
    /\ InUser(p)
    /\ LET ft == tcb[p].fd_table
       IN IF fd >= Len(ft)
          THEN tcb' = [tcb EXCEPT ![p].a0 = 0 - 1]
          ELSE IF ft[fd + 1] = NoFile
          THEN tcb' = [tcb EXCEPT ![p].a0 = 0 - 1]
          ELSE tcb' = [tcb EXCEPT ![p].fd_table[fd + 1] = NoFile, ![p].a0 = 0]
    /\ UNCHANGED <<pid_current, pid_recycled, ready_queue, current, pipes, locks, khalt,
                   ahead, written, delivered, nSent>>

\* the fd holds nothing, or an end of a pipe (console I/O is not modelled)
NotConsole(p, fd) ==
    fd < Len(tcb[p].fd_table) => tcb[p].fd_table[fd + 1].kind \notin {"stdin", "stdout"}

\* sys_read(fd, buf, len)
KRead(p, fd, len) ==
    /\ OsFrame
    /\ InUser(p)
    /\ NotConsole(p, fd)
    /\ FileIO(p, "read", fd, len, <<>>)
    /\ UNCHANGED <<pid_current, pid_recycled, nSent>>

\* sys_write(fd, buf, len), the buffer holding data
KWrite(p, fd, data) ==
    /\ OsFrame
    /\ InUser(p)
    /\ NotConsole(p, fd)
    /\ nSent + Len(data) <= MaxSent
    /\ nSent' = nSent + Len(data)
    /\ FileIO(p, "write", fd, 0, data)
    /\ UNCHANGED <<pid_current, pid_recycled>>

\* add_initproc, before run_tasks: INITPROC is made by TCB::new with the first
\* pid and added to the ready queue
OsInit ==
    /\ pid_current = INITPROC + 1
    /\ pid_recycled = <<>>
    /\ tcb = [p \in {INITPROC} |-> TCB_new]
    /\ ready_queue = <<INITPROC>>
    /\ current = NONE
    /\ pipes = <<>>
    /\ locks = {}
    /\ khalt = "no"
    /\ ahead = [p \in {INITPROC} |-> {}]
    /\ written = <<>>
    /\ delivered = <<>>
    /\ nSent = 0

\* ---- user programs that may make any call at any time ----
\* the fds handed to sys_close, sys_read and sys_write: stderr, the slots the
\* ends of a pipe go to, and one slot beyond the table
Fds == 2..(2 + 2 * MaxPipes)
\* buffer lengths: half the ring for a read; half the ring, or one byte more
\* than the ring holds, for a write
ReadLens == {MaxRead}
WriteLens == {MaxRead, RING_BUFFER_SIZE + 1}
WaitPids == {0 - 1} \cup (1..MaxTasks)

\* the next n bytes a program sends: each byte sent is different
NextData(n) == [i \in 1..n |-> nSent + i]

Timer == KTimer(current) /\ UNCHANGED s1Vars
SysYield == KYield(current) /\ UNCHANGED s1Vars
SysExit(code) == KExit(current, code) /\ UNCHANGED s1Vars
SysFork(limit) == KFork(current, limit) /\ UNCHANGED s1Vars
SysWaitpid(pid) == KWaitpid(current, pid) /\ UNCHANGED s1Vars
SysPipe == KPipe(current) /\ UNCHANGED s1Vars
SysClose(fd) == KClose(current, fd) /\ UNCHANGED s1Vars
SysRead(fd, len) == KRead(current, fd, len) /\ UNCHANGED s1Vars
SysWrite(fd, n) == KWrite(current, fd, NextData(n)) /\ UNCHANGED s1Vars

\* ---- scenario S1: the programs of the parent (INITPROC) and of its child ----
HELLO == <<72, 69, 76, 76, 79>>

NoRes == [child |-> NONE, r1 |-> NONE, r2 |-> NONE]

S1Init ==
    /\ upc = [p \in {INITPROC} |-> 0]
    /\ ures = NoRes

\* pipe(fds)
S1ParentPipe ==
    /\ InUser(INITPROC) /\ upc[INITPROC] = 0
    /\ KPipe(INITPROC)
    /\ upc' = [upc EXCEPT ![INITPROC] = 1]
    /\ UNCHANGED ures

\* pid = fork(); the child starts its own part of the program
S1ParentFork ==
    /\ InUser(INITPROC) /\ upc[INITPROC] = 1
    /\ KFork(INITPROC, 2)
    /\ ures' = [ures EXCEPT !.child = tcb'[INITPROC].a0]
    /\ upc' = [q \in DOMAIN tcb' |-> IF q = INITPROC THEN 2 ELSE 10]

\* close(fds[0])
S1ParentCloseRead ==
    /\ InUser(INITPROC) /\ upc[INITPROC] = 2
    /\ KClose(INITPROC, tcb[INITPROC].ufds[1])
    /\ upc' = [upc EXCEPT ![INITPROC] = 3]
    /\ UNCHANGED ures

\* write(fds[1], "HELLO", 5)
S1ParentWrite ==
    /\ InUser(INITPROC) /\ upc[INITPROC] = 3
    /\ KWrite(INITPROC, tcb[INITPROC].ufds[2], HELLO)
    /\ upc' = [upc EXCEPT ![INITPROC] = 4]
    /\ UNCHANGED ures

\* close(fds[1])
S1ParentCloseWrite ==
    /\ InUser(INITPROC) /\ upc[INITPROC] = 4
    /\ KClose(INITPROC, tcb[INITPROC].ufds[2])
    /\ upc' = [upc EXCEPT ![INITPROC] = 5]
    /\ UNCHANGED ures

\* waitpid(pid, &c), in the user library: sys_waitpid ...
S1ParentWait ==
    /\ InUser(INITPROC) /\ upc[INITPROC] = 5
    /\ KWaitpid(INITPROC, ures.child)
    /\ upc' = [q \in DOMAIN tcb' |-> IF q = INITPROC THEN 6 ELSE upc[q]]
    /\ UNCHANGED ures

\* ... and sys_yield while it returns -2
S1ParentYield ==
    /\ InUser(INITPROC) /\ upc[INITPROC] = 6
    /\ tcb[INITPROC].a0 = 0 - 2
    /\ KYield(INITPROC)
    /\ upc' = [upc EXCEPT ![INITPROC] = 5]
    /\ UNCHANGED ures

\* close(fds[1])
S1ChildClose ==
    /\ InUser(ures.child) /\ upc[ures.child] = 10
    /\ KClose(ures.child, tcb[ures.child].ufds[2])
    /\ upc' = [upc EXCEPT ![ures.child] = 11]
    /\ UNCHANGED ures

\* read(fds[0], buf, 16)
S1ChildRead1 ==
    /\ InUser(ures.child) /\ upc[ures.child] = 11
    /\ KRead(ures.child, tcb[ures.child].ufds[1], 16)
    /\ upc' = [upc EXCEPT ![ures.child] = 12]
    /\ UNCHANGED ures

\* the result is noted; read(fds[0], buf, 16) again
S1ChildRead2 ==
    /\ InUser(ures.child) /\ upc[ures.child] = 12
    /\ KRead(ures.child, tcb[ures.child].ufds[1], 16)
    /\ ures' = [ures EXCEPT !.r1 = tcb[ures.child].a0]
    /\ upc' = [upc EXCEPT ![ures.child] = 13]

\* the result is noted; exit(0)
S1ChildExit ==
    /\ InUser(ures.child) /\ upc[ures.child] = 13
    /\ KExit(ures.child, 0)
    /\ ures' = [ures EXCEPT !.r2 = tcb[ures.child].a0]
    /\ upc' = [upc EXCEPT ![ures.child] = 14]

S1Parent ==
    \/ S1ParentPipe
    \/ S1ParentFork
    \/ S1ParentCloseRead
    \/ S1ParentWrite
    \/ S1ParentCloseWrite
    \/ S1ParentWait
    \/ S1ParentYield

S1Child ==
    \/ S1ChildClose
    \/ S1ChildRead1
    \/ S1ChildRead2
    \/ S1ChildExit

(***************************************************************************)
(* os/mm: StackFrameAllocator (src/os/src/mm/frame_allocator.rs)           *)
(***************************************************************************)

FrameStart == 2   \* the first page after the kernel image, l of init
MaxFrames == 3    \* the most pages [l, r) holds in the allocator's specification

\* StackFrameAllocator::new
StackFrameAllocator_new == [current |-> 0, end |-> 0, recycled |-> <<>>]

\* StackFrameAllocator::init
init(fa, l, r) == [fa EXCEPT !.current = l, !.end = r]

\* alloc taking the oldest recycled page instead of the newest
alloc_oldest(fa) ==
    IF fa.recycled # <<>>
    THEN [fa |-> [fa EXCEPT !.recycled = Tail(@)], ret |-> Head(fa.recycled)]
    ELSE IF fa.current = fa.end
         THEN [fa |-> fa, ret |-> NONE]
         ELSE [fa |-> [fa EXCEPT !.current = @ + 1], ret |-> (fa.current + 1) - 1]

\* StackFrameAllocator::alloc: the allocator after the call and Option<PhysPageNum>
alloc(fa) ==
    IF fa.recycled # <<>>
    THEN [fa |-> [fa EXCEPT !.recycled = SubSeq(@, 1, Len(@) - 1)],
          ret |-> fa.recycled[Len(fa.recycled)]]
    ELSE IF fa.current = fa.end
         THEN [fa |-> fa, ret |-> NONE]
         ELSE [fa |-> [fa EXCEPT !.current = @ + 1], ret |-> (fa.current + 1) - 1]

\* a dealloc that does not look into recycled
dealloc_unchecked(fa, ppn) ==
    IF ppn >= fa.current
    THEN [fa |-> fa, panic |-> TRUE]
    ELSE [fa |-> [fa EXCEPT !.recycled = Append(@, ppn)], panic |-> FALSE]
\* StackFrameAllocator::dealloc: the allocator after the call, and whether it panicked
dealloc(fa, ppn) ==
    IF ppn >= fa.current \/ \E i \in 1..Len(fa.recycled) : fa.recycled[i] = ppn
    THEN [fa |-> fa, panic |-> TRUE]
    ELSE [fa |-> [fa EXCEPT !.recycled = Append(@, ppn)], panic |-> FALSE]

FaNoCall ==
    [op |-> "none", ppn |-> NONE, ret |-> NONE, panic |-> FALSE,
     before |-> StackFrameAllocator_new, handed_before |-> {},
     prev |-> "none", prev_ppn |-> NONE, prev_panic |-> FALSE,
     out |-> {}, out_before |-> {}]

\* PageTable before PageTable::new
NoTable == [root_ppn |-> NONE, frames |-> <<>>]

\* Option<PageTableEntry>
NoPte == [some |-> FALSE, bits |-> 0]
SomePte(bits) == [some |-> TRUE, bits |-> bits]

PtNoCall ==
    [op |-> "none", vpn |-> NONE, ppn |-> NONE, flags |-> 0, panic |-> "no",
     ret |-> NoPte, before |-> NoPte, changed |-> {}]

\* the allocator and the page table before the kernel has set them up
MmInit ==
    /\ frame_allocator = StackFrameAllocator_new
    /\ mem = <<>>
    /\ page_table = NoTable
    /\ handed = {}
    /\ mmPanicked = FALSE
    /\ faLast = FaNoCall
    /\ ptLast = PtNoCall

\* init_frame_allocator with n pages between ekernel and MEMORY_END
FrameInit(n) ==
    /\ frame_allocator = init(StackFrameAllocator_new, FrameStart, FrameStart + n)
    /\ mem = <<>>
    /\ page_table = NoTable
    /\ handed = {}
    /\ mmPanicked = FALSE
    /\ faLast = FaNoCall
    /\ ptLast = PtNoCall

\* the record of a call; out are the pages alloc has returned that have not
\* been passed to dealloc since
FaGhost(op, ppn) ==
    [op |-> op, ppn |-> ppn, before |-> frame_allocator, handed_before |-> handed,
     prev |-> faLast.op, prev_ppn |-> faLast.ppn, prev_panic |-> faLast.panic,
     out_before |-> faLast.out]

FaAlloc ==
    /\ ~mmPanicked
    /\ LET r == alloc(frame_allocator)
       IN /\ frame_allocator' = r.fa
          /\ handed' = IF r.ret = NONE THEN handed ELSE handed \cup {r.ret}
          /\ faLast' = FaGhost("alloc", NONE) @@
                       [ret |-> r.ret, panic |-> FALSE,
                        out |-> IF r.ret = NONE THEN faLast.out ELSE faLast.out \cup {r.ret}]
    /\ UNCHANGED <<mem, page_table, mmPanicked, ptLast>>
    /\ MmFrame

FaDealloc(ppn) ==
    /\ ~mmPanicked
    /\ LET r == dealloc(frame_allocator, ppn)
       IN /\ frame_allocator' = r.fa
          /\ mmPanicked' = r.panic
          /\ faLast' = FaGhost("dealloc", ppn) @@
                       [ret |-> NONE, panic |-> r.panic,
                        out |-> IF r.panic THEN faLast.out ELSE faLast.out \ {ppn}]
    /\ UNCHANGED <<mem, page_table, handed, ptLast>>
    /\ MmFrame

(***************************************************************************)
(* os/mm: PageTable (src/os/src/mm/page_table.rs, address.rs)              *)
(***************************************************************************)

\* PTEFlags
PTEFlags_V == 1
PTEFlags_R == 2
PTEFlags_W == 4
PTEFlags_X == 8
PTEFlags_U == 16

\* | and & on usize and u8
RECURSIVE BitOr(_, _)
BitOr(a, b) ==
    IF a = 0 THEN b
    ELSE IF b = 0 THEN a
    ELSE (IF a % 2 = 1 \/ b % 2 = 1 THEN 1 ELSE 0) + 2 * BitOr(a \div 2, b \div 2)

RECURSIVE BitAnd(_, _)
BitAnd(a, b) ==
    IF a = 0 \/ b = 0 THEN 0
    ELSE (IF a % 2 = 1 /\ b % 2 = 1 THEN 1 ELSE 0) + 2 * BitAnd(a \div 2, b \div 2)

\* PageTableEntry::new: bits
PageTableEntry_new(ppn, flags) == BitOr(ppn * 2^10, flags)

\* PageTableEntry::ppn; its 44-bit mask keeps every bit of bits below 2^54
ppn_of(bits) == bits \div 2^10

\* PageTableEntry::flags: bits as u8, every bit of which is a flag
flags_of(bits) == bits % 2^8

\* PageTableEntry::is_valid
is_valid(bits) == BitAnd(flags_of(bits), PTEFlags_V) # 0

\* VirtPageNum::indexes, the array from index 1
indexes(vpn) == <<(vpn \div 2^18) % 512, (vpn \div 2^9) % 512, vpn % 512>>

\* the virtual pages of the specification: two in one leaf table, one in
\* another leaf table under the same middle table, one under another middle
\* table
PtVpns == {0, 1, 512, 262144}

\* config.rs: PAGE_SIZE, and the page MEMORY_END = 0x80800000 starts
PAGE_SIZE == 4096
MEMORY_END_PAGE == 526336

\* the page of TRAMPOLINE = usize::MAX - PAGE_SIZE + 1, of which indexes
\* reads the low 27 bits
TrampolineVpn == 2^27 - 1

\* the most pages of .text, of .rodata and of .data, the most of .bss, and
\* the pages between ekernel and MEMORY_END in the kernel's specification
MaxSectionPages == 3
MaxBssPages == 2
KernelFreePages == 5

\* the virtual pages the kernel's address space maps
KernelVpns ==
    (MEMORY_END_PAGE - KernelFreePages - MaxBssPages - 3 * MaxSectionPages)
        ..(MEMORY_END_PAGE - 1) \cup {TrampolineVpn}

\* the entries of a page these pages reach
PtIdxs == UNION {{indexes(v)[i] : i \in 1..3} : v \in PtVpns \cup KernelVpns}

PtPpns == {5, 9}

\* PTEFlags::empty(), and flags that hold V already
PtFlags == {0, BitOr(BitOr(PTEFlags_V, PTEFlags_R), BitOr(PTEFlags_W, PTEFlags_U))}

\* pages of memory in the page table's specification: enough for every table
\* of PtVpns, or too few for them
PtPools == {3, 6}

\* FrameTracker::new: the page zeroed
FrameTracker_new(m, ppn) == [m EXCEPT ![ppn] = [i \in PtIdxs |-> 0]]

\* frame_alloc
frame_alloc(fa, m) ==
    LET a == alloc(fa)
    IN IF a.ret = NONE THEN [fa |-> a.fa, mem |-> m, ret |-> NONE]
       ELSE [fa |-> a.fa, mem |-> FrameTracker_new(m, a.ret), ret |-> a.ret]

\* PageTable::new, on an allocator with a free page
PageTable_new(fa, m) ==
    LET f == frame_alloc(fa, m)
    IN [fa |-> f.fa, mem |-> f.mem, pt |-> [root_ppn |-> f.ret, frames |-> <<f.ret>>]]

\* PageTable::find_pte_create from level i of the table at ppn: the allocator,
\* memory and table after it, and the leaf's place, or the panic of
\* frame_alloc().unwrap()
RECURSIVE find_pte_create_from(_, _, _, _)
find_pte_create_from(st, ppn, idx, i) ==
    IF i = 3
    THEN [fa |-> st.fa, mem |-> st.mem, pt |-> st.pt, panic |-> FALSE,
          leaf |-> <<ppn, idx[i]>>]
    ELSE LET pte == st.mem[ppn][idx[i]]
         IN IF ~is_valid(pte)
            THEN LET f == frame_alloc(st.fa, st.mem)
                 IN IF f.ret = NONE
                    THEN [fa |-> f.fa, mem |-> f.mem, pt |-> st.pt, panic |-> TRUE,
                          leaf |-> <<ppn, idx[i]>>]
                    ELSE LET new == PageTableEntry_new(f.ret, PTEFlags_V)
                         IN find_pte_create_from(
                                [fa |-> f.fa,
                                 mem |-> [f.mem EXCEPT ![ppn][idx[i]] = new],
                                 pt |-> [st.pt EXCEPT !.frames = Append(@, f.ret)]],
                                ppn_of(new), idx, i + 1)
            ELSE find_pte_create_from(st, ppn_of(pte), idx, i + 1)

find_pte_create(fa, m, pt, vpn) ==
    find_pte_create_from([fa |-> fa, mem |-> m, pt |-> pt], pt.root_ppn, indexes(vpn), 1)

\* PageTable::find_pte from level i of the table at ppn
RECURSIVE find_pte_from(_, _, _, _)
find_pte_from(m, ppn, idxs, i) ==
    LET pte == m[ppn][idxs[i]]
    IN IF i = 3 THEN SomePte(pte)
       ELSE IF ~is_valid(pte) THEN NoPte
       ELSE find_pte_from(m, ppn_of(pte), idxs, i + 1)

find_pte(m, pt, vpn) == find_pte_from(m, pt.root_ppn, indexes(vpn), 1)

\* PageTable::translate
translate(m, pt, vpn) == find_pte(m, pt, vpn)

\* map writing the leaf whatever it holds
map_over(fa, m, pt, vpn, ppn, flags) ==
    LET r == find_pte_create(fa, m, pt, vpn)
    IN IF r.panic THEN [fa |-> r.fa, mem |-> r.mem, pt |-> r.pt, panic |-> "oom"]
       ELSE [fa |-> r.fa, pt |-> r.pt, panic |-> "no",
             mem |-> [r.mem EXCEPT ![r.leaf[1]][r.leaf[2]] =
                         PageTableEntry_new(ppn, BitOr(flags, PTEFlags_V))]]

\* PageTable::map: what it leaves, and "no" or the panic that ended it
map(fa, m, pt, vpn, ppn, flags) ==
    LET r == find_pte_create(fa, m, pt, vpn)
    IN IF r.panic THEN [fa |-> r.fa, mem |-> r.mem, pt |-> r.pt, panic |-> "oom"]
       ELSE IF is_valid(r.mem[r.leaf[1]][r.leaf[2]])
       THEN [fa |-> r.fa, mem |-> r.mem, pt |-> r.pt, panic |-> "mapped"]
       ELSE [fa |-> r.fa, pt |-> r.pt, panic |-> "no",
             mem |-> [r.mem EXCEPT ![r.leaf[1]][r.leaf[2]] =
                         PageTableEntry_new(ppn, BitOr(flags, PTEFlags_V))]]

\* PageTable::unmap
unmap(fa, m, pt, vpn) ==
    LET r == find_pte_create(fa, m, pt, vpn)
    IN IF r.panic THEN [fa |-> r.fa, mem |-> r.mem, pt |-> r.pt, panic |-> "oom"]
       ELSE IF ~is_valid(r.mem[r.leaf[1]][r.leaf[2]])
       THEN [fa |-> r.fa, mem |-> r.mem, pt |-> r.pt, panic |-> "invalid"]
       ELSE [fa |-> r.fa, pt |-> r.pt, panic |-> "no",
             mem |-> [r.mem EXCEPT ![r.leaf[1]][r.leaf[2]] = 0]]

\* init_frame_allocator with n pages, then PageTable::new
PtInit(n) ==
    LET fa0 == init(StackFrameAllocator_new, FrameStart, FrameStart + n)
        m0 == [p \in FrameStart..(FrameStart + n - 1) |-> [i \in PtIdxs |-> 0]]
        t == PageTable_new(fa0, m0)
    IN /\ frame_allocator = t.fa
       /\ mem = t.mem
       /\ page_table = t.pt
       /\ handed = {t.pt.root_ppn}
       /\ mmPanicked = FALSE
       /\ faLast = FaNoCall
       /\ ptLast = PtNoCall

\* the last call: what translate returned for its page before it, and the
\* other pages for which translate returns something else after it
PtGhost(op, vpn, r) ==
    [op |-> op, vpn |-> vpn, panic |-> r.panic,
     before |-> translate(mem, page_table, vpn),
     changed |-> {v \in PtVpns \ {vpn} :
                     translate(r.mem, r.pt, v) # translate(mem, page_table, v)}]

PtAfter(r) ==
    /\ frame_allocator' = r.fa
    /\ mem' = r.mem
    /\ page_table' = r.pt
    /\ handed' = handed \cup {r.pt.frames[i] : i \in 1..Len(r.pt.frames)}
    /\ mmPanicked' = (r.panic # "no")
    /\ UNCHANGED faLast
    /\ MmFrame

PtMap(vpn, ppn, flags) ==
    /\ ~mmPanicked
    /\ LET r == map(frame_allocator, mem, page_table, vpn, ppn, flags)
       IN /\ PtAfter(r)
          /\ ptLast' = PtGhost("map", vpn, r) @@ [ppn |-> ppn, flags |-> flags, ret |-> NoPte]

PtUnmap(vpn) ==
    /\ ~mmPanicked
    /\ LET r == unmap(frame_allocator, mem, page_table, vpn)
       IN /\ PtAfter(r)
          /\ ptLast' = PtGhost("unmap", vpn, r) @@ [ppn |-> NONE, flags |-> 0, ret |-> NoPte]

PtTranslate(vpn) ==
    /\ ~mmPanicked
    /\ ptLast' = [op |-> "translate", vpn |-> vpn, ppn |-> NONE, flags |-> 0,
                  panic |-> "no", ret |-> translate(mem, page_table, vpn),
                  before |-> translate(mem, page_table, vpn), changed |-> {}]
    /\ UNCHANGED <<frame_allocator, mem, page_table, handed, mmPanicked, faLast>>
    /\ MmFrame

(***************************************************************************)
(* os/syscall: the dispatch (src/os/src/syscall/mod.rs)                    *)
(***************************************************************************)

MaxArg == 2   \* a0, a1 and a2 are in 0..MaxArg

SYSCALL_CLOSE == 57
SYSCALL_PIPE == 59
SYSCALL_READ == 63
SYSCALL_WRITE == 64
SYSCALL_EXIT == 93
SYSCALL_YIELD == 124
SYSCALL_GET_TIME == 169
SYSCALL_GETPID == 172
SYSCALL_FORK == 220
SYSCALL_EXEC == 221
SYSCALL_WAITPID == 260

\* the user library's SYSCALL_* ids, each under the name of its wrapper
user_syscalls ==
    [sys_dup |-> 24, sys_open |-> 56, sys_close |-> 57, sys_pipe |-> 59,
     sys_read |-> 63, sys_write |-> 64, sys_exit |-> 93, sys_yield |-> 124,
     sys_get_time |-> 169, sys_getpid |-> 172, sys_fork |-> 220, sys_exec |-> 221,
     sys_waitpid |-> 260]

\* syscall: the handler the match arm of id calls and the arguments it hands
\* to it, args being [a0, a1, a2] from index 1
syscall(id, args) ==
    CASE id = SYSCALL_CLOSE -> [handler |-> "sys_close", hargs |-> <<args[1]>>]
      [] id = SYSCALL_PIPE -> [handler |-> "sys_pipe", hargs |-> <<args[1]>>]
      [] id = SYSCALL_READ -> [handler |-> "sys_read", hargs |-> <<args[1], args[2], args[3]>>]
      [] id = SYSCALL_WRITE -> [handler |-> "sys_write", hargs |-> <<args[1], args[2], args[3]>>]
      [] id = SYSCALL_EXIT -> [handler |-> "sys_exit", hargs |-> <<args[1]>>]
      [] id = SYSCALL_YIELD -> [handler |-> "sys_yield", hargs |-> <<>>]
      [] id = SYSCALL_GET_TIME -> [handler |-> "sys_get_time", hargs |-> <<>>]
      [] id = SYSCALL_GETPID -> [handler |-> "sys_getpid", hargs |-> <<>>]
      [] id = SYSCALL_FORK -> [handler |-> "sys_fork", hargs |-> <<>>]
      [] id = SYSCALL_EXEC -> [handler |-> "sys_exec", hargs |-> <<args[1]>>]
      [] id = SYSCALL_WAITPID -> [handler |-> "sys_waitpid", hargs |-> <<args[1], args[2]>>]
      [] OTHER -> [handler |-> "panic: Unsupported syscall_id", hargs |-> <<id>>]

NoDispatch == [id |-> NONE, args |-> <<0, 0, 0>>, handler |-> "none", hargs |-> <<>>]

SysInit == dispatched = NoDispatch

\* trap_handler on Exception::UserEnvCall: syscall(a7, [a0, a1, a2]); the
\* panic of the last arm stops the kernel
Ecall(id, args) ==
    /\ dispatched.handler # "panic: Unsupported syscall_id"
    /\ dispatched' = [id |-> id, args |-> args] @@ syscall(id, args)
    /\ UNCHANGED <<fsVars, cacheVars, osVars, s1Vars, mmVars, calcVars, trapVars, fileVars, bmVars>>

\* the ids a user program puts in a7: those of the user library, and one no
\* table holds
EcallIds == {user_syscalls[n] : n \in DOMAIN user_syscalls} \cup {0}

(***************************************************************************)
(* easy-fs: single calls of EasyFileSystem and DiskInode functions         *)
(***************************************************************************)

MaxInodeIds == 64   \* inode ids tried at each end of the inode bitmap's range

\* EasyFileSystem::get_disk_inode_pos: (block_id, offset in the block)
get_disk_inode_pos(id) ==
    LET inode_sz == DISK_INODE_SZ
        inodes_per_block == BLOCK_SZ \div inode_sz
    IN <<inode_area_start_block + (id + inodes_per_block - 1) \div inodes_per_block,
         (id % inodes_per_block) * inode_sz>>

\* Bitmap::maximum of the inode bitmap
inode_num == FsInodeBitmapBlocks * BLOCK_BITS

\* the first and the last ids the inode bitmap can hand out
InodeIds == 0..(MaxInodeIds - 1) \cup (inode_num - MaxInodeIds)..(inode_num - 1)

CalcStart(fn, in) == calc = [fn |-> fn, in |-> in, done |-> FALSE]

CalcInodePos ==
    /\ calc.fn = "get_disk_inode_pos" /\ ~calc.done
    /\ calc' = [calc EXCEPT !.done = TRUE] @@ [out |-> get_disk_inode_pos(calc.in)]
    /\ CalcFrame

(***************************************************************************)
(* os/trap: trap_handler on a system call (src/os/src/trap/mod.rs)         *)
(***************************************************************************)

MaxTraps == 3       \* system calls in one behaviour
MaxArgc == 2        \* arguments handed to exec are 0..MaxArgc
MaxTrapPages == 3   \* physical pages that hold trap contexts
TrapEntry == 64     \* the entry point of the program exec loads
TrapArgv == 96      \* argv_base of the program exec loads

\* TrapContext: the registers the handler reads and writes
TrapContext_new(a7, a0, a1, a2, sepc) ==
    [x10 |-> a0, x11 |-> a1, x12 |-> a2, x17 |-> a7, sepc |-> sepc]

\* TrapContext::app_init_context(entry, ..), then x[10] and x[11] as TCB::exec
\* sets them
exec_trap_cx(entry, argc, argv_base) ==
    [TrapContext_new(0, 0, 0, 0, entry) EXCEPT !.x10 = argc, !.x11 = argv_base]

\* current_trap_cx read once, before the system call
current_trap_cx_at_entry(ppn_now, ppn_at_entry) == ppn_at_entry

\* current_trap_cx(): the page of the current task's trap context; the
\* handler holds ppn_at_entry from its first call
current_trap_cx(ppn_now, ppn_at_entry) == ppn_now

NoTrap ==
    [n |-> 0, entry_ppn |-> 0, entry_cx |-> TrapContext_new(0, 0, 0, 0, 0), id |-> 0,
     args |-> <<0, 0, 0>>, handler |-> "none", result |-> 0, exec_ok |-> FALSE,
     old_cx |-> TrapContext_new(0, 0, 0, 0, 0), wrote |-> NONE]

TrapInit ==
    /\ trap_cx = [p \in 0..(MaxTrapPages - 1) |-> TrapContext_new(0, 0, 0, 0, 0)]
    /\ trap_cx_ppn = 0
    /\ trapPc = "user"
    /\ trapCall = NoTrap

\* a user program's ecall: the trap context as the trap entry leaves it, with
\* a7, a0..a2 and the address of the ecall in sepc
UserEcall(a7, a0, a1, a2, skip) ==
    /\ trapPc = "user"
    /\ trapCall.n < MaxTraps
    /\ LET cx == TrapContext_new(a7, a0, a1, a2, trap_cx[trap_cx_ppn].sepc + skip)
       IN /\ trap_cx' = [trap_cx EXCEPT ![trap_cx_ppn] = cx]
          /\ trapCall' = [NoTrap EXCEPT !.n = trapCall.n + 1, !.entry_ppn = trap_cx_ppn,
                                        !.entry_cx = cx]
    /\ trapPc' = "trap"
    /\ UNCHANGED trap_cx_ppn
    /\ TrapFrame

\* trap_handler, Exception::UserEnvCall: cx = current_trap_cx(); cx.sepc += 4
TrapSepc ==
    /\ trapPc = "trap"
    /\ trap_cx' = [trap_cx EXCEPT ![current_trap_cx(trap_cx_ppn, trap_cx_ppn)].sepc = @ + 4]
    /\ trapPc' = "syscall"
    /\ UNCHANGED <<trap_cx_ppn, trapCall>>
    /\ TrapFrame

\* trap_handler: syscall(cx.x[17], [cx.x[10], cx.x[11], cx.x[12]]) for a call
\* other than exec and exit that returns ret
TrapSyscall(ret) ==
    /\ trapPc = "syscall"
    /\ LET cx == trap_cx[trapCall.entry_ppn]
           args == <<cx.x10, cx.x11, cx.x12>>
           d == syscall(cx.x17, args)
       IN /\ d.handler \notin {"sys_exec", "sys_exit"}
          /\ trapCall' = [trapCall EXCEPT !.id = cx.x17, !.args = args,
                                          !.handler = d.handler, !.result = ret]
          /\ trapPc' = IF d.handler = "panic: Unsupported syscall_id" THEN "halted" ELSE "write"
    /\ UNCHANGED <<trap_cx, trap_cx_ppn>>
    /\ TrapFrame

\* trap_handler: the system call is sys_exit, which does not return
TrapExit ==
    /\ trapPc = "syscall"
    /\ LET cx == trap_cx[trapCall.entry_ppn]
           args == <<cx.x10, cx.x11, cx.x12>>
       IN /\ syscall(cx.x17, args).handler = "sys_exit"
          /\ trapCall' = [trapCall EXCEPT !.id = cx.x17, !.args = args, !.handler = "sys_exit"]
    /\ trapPc' = "exited"
    /\ UNCHANGED <<trap_cx, trap_cx_ppn>>
    /\ TrapFrame

\* trap_handler: the system call is sys_exec and open_file finds no file
TrapExecFails ==
    /\ trapPc = "syscall"
    /\ LET cx == trap_cx[trapCall.entry_ppn]
           args == <<cx.x10, cx.x11, cx.x12>>
       IN /\ syscall(cx.x17, args).handler = "sys_exec"
          /\ trapCall' = [trapCall EXCEPT !.id = cx.x17, !.args = args,
                                          !.handler = "sys_exec", !.result = 0 - 1]
    /\ trapPc' = "write"
    /\ UNCHANGED <<trap_cx, trap_cx_ppn>>
    /\ TrapFrame

\* trap_handler: the system call is sys_exec with argc arguments, and TCB::exec
\* puts the trap context of the new address space in the page ppn
TrapExec(argc, ppn) ==
    /\ trapPc = "syscall"
    /\ ppn # trap_cx_ppn
    /\ LET cx == trap_cx[trapCall.entry_ppn]
           args == <<cx.x10, cx.x11, cx.x12>>
       IN /\ syscall(cx.x17, args).handler = "sys_exec"
          /\ trapCall' = [trapCall EXCEPT !.id = cx.x17, !.args = args,
                                          !.handler = "sys_exec", !.result = argc,
                                          !.exec_ok = TRUE, !.old_cx = cx]
    /\ trap_cx_ppn' = ppn
    /\ trap_cx' = [trap_cx EXCEPT ![ppn] = exec_trap_cx(TrapEntry, argc, TrapArgv)]
    /\ trapPc' = "write"
    /\ TrapFrame

\* trap_handler: cx = current_trap_cx(); cx.x[10] = result as usize (a
\* negative result stands for its two's complement)
TrapWrite ==
    /\ trapPc = "write"
    /\ LET ppn == current_trap_cx(trap_cx_ppn, trapCall.entry_ppn)
       IN /\ trap_cx' = [trap_cx EXCEPT ![ppn].x10 = trapCall.result]
          /\ trapCall' = [trapCall EXCEPT !.wrote = ppn]
    /\ trapPc' = "user"
    /\ UNCHANGED trap_cx_ppn
    /\ TrapFrame

\* the ids user programs trap with here: exec, exit, two that return, one no
\* table holds
TrapIds == {SYSCALL_EXEC, SYSCALL_EXIT, SYSCALL_GETPID, SYSCALL_CLOSE, 0}

(***************************************************************************)
(* easy-fs: the block arithmetic of DiskInode (src/easy-fs/src/layout.rs)  *)
(***************************************************************************)

MaxCalcBlocks == 300   \* sizes handed to total_blocks are up to this many blocks

\* DiskInode::total_blocks, built with overflow checks: the subtraction
\* data_blocks - INDIRECT1_BOUND panics where it would wrap
total_blocks_underflows(size) ==
    /\ data_blocks_of(size) > INODE_INDIRECT1_COUNT
    /\ data_blocks_of(size) < INDIRECT1_BOUND

\* the sizes handed in: each number of blocks, full and one byte into the last
CalcSizes == {d * BLOCK_SZ : d \in 0..MaxCalcBlocks}
                 \cup {d * BLOCK_SZ + 1 : d \in 0..(MaxCalcBlocks - 1)}

\* DiskInode::total_blocks(size), in a build with overflow checks (a debug
\* build) or without them (a release build)
CalcTotalBlocks(checked) ==
    /\ calc.fn = "total_blocks" /\ ~calc.done
    /\ calc' = [calc EXCEPT !.done = TRUE] @@
                [out |-> IF checked /\ total_blocks_underflows(calc.in)
                         THEN [panic |-> TRUE, val |-> 0]
                         ELSE [panic |-> FALSE, val |-> total_blocks(calc.in)]]
    /\ CalcFrame

\* DiskInode::get_block_id(inner_id): the block id, or the panic of an index
\* past the end of an IndirectBlock
get_block_id(di, inner_id, iv) ==
    IF inner_id < INODE_DIRECT_COUNT
    THEN [panic |-> FALSE, val |-> di.direct[inner_id + 1]]
    ELSE IF inner_id < INODE_INDIRECT1_COUNT
    THEN [panic |-> FALSE, val |-> IndGet(iv, di.indirect1)[inner_id - INODE_DIRECT_COUNT]]
    ELSE LET last == inner_id - INODE_INDIRECT1_COUNT
         IN IF last >= INODE_INDIRECT1_COUNT
            THEN [panic |-> TRUE, val |-> 0]
            ELSE LET indirect1 == IndGet(iv, di.indirect2)[last]
                 IN [panic |-> FALSE,
                     val |-> IndGet(iv, indirect1)[last % INODE_INDIRECT1_COUNT]]

\* the files get_block_id is asked about have this many data blocks.  (With
\* 129 to 156 blocks and inner_id >= 128 the code takes entry 0 of block
\* indirect2 = 0, the magic number, for a block id: those files are left out.)
CalcFileBlocks == {20, 100, 128, 160}

\* ids handed to increase_size: more than the file and its index blocks need
SpareIds == 8

\* a file of d data blocks, grown from empty by one DiskInode::increase_size
\* with the ids data_area_start_block, data_area_start_block + 1, ...
GrownFile(d) ==
    DiskInode_increase_size(DiskInode_initialize("File"), d * BLOCK_SZ,
                            [k \in 1..(d + SpareIds) |-> data_area_start_block + k - 1], <<>>)

CalcGetBlockId ==
    /\ calc.fn = "get_block_id" /\ ~calc.done
    /\ calc' = [calc EXCEPT !.done = TRUE] @@
                [out |-> get_block_id(calc.in.di, calc.in.inner_id, calc.in.ind)]
    /\ CalcFrame

\* the numbers of data blocks of the file before and after increase_size
CalcOldBlocks == {0, 1, 27, 28, 29, 100, 155, 156}
CalcNewBlocks == {1, 2, 28, 29, 30, 100, 155, 156, 157, 160}

\* the ids the caller of increase_size supplies: blocks_num_needed of them,
\* as EasyFileSystem::alloc_data hands them out after those of the old file
NewIds(di, old_blocks, new_size) ==
    [k \in 1..blocks_num_needed(di, new_size) |->
        data_area_start_block + old_blocks + SpareIds + k - 1]

\* DiskInode::increase_size(new_size, new_blocks)
CalcIncreaseSize ==
    /\ calc.fn = "increase_size" /\ ~calc.done
    /\ calc' = [calc EXCEPT !.done = TRUE] @@
                [out |-> DiskInode_increase_size(calc.in.di, calc.in.new_size,
                                                 calc.in.new_blocks, calc.in.ind)]
    /\ CalcFrame

(***************************************************************************)
(* os/fs: files of the filesystem in the fd table (src/os/src/fs/inode.rs, *)
(* src/os/src/syscall/filesystem.rs)                                       *)
(***************************************************************************)

MaxFileOps == 4      \* sys_open, sys_read and sys_write calls in one behaviour
MaxFdTable == 5      \* sys_dup is not called on a table longer than this

\* OpenFlags
RDONLY == 0
WRONLY == 1
RDWR == 2
CREATE == 512
TRUNC == 1024

\* OpenFlags::contains
contains(flags, other) == BitAnd(flags, other) = other

\* OpenFlags::read_write: (readable, writable)
read_write(flags) ==
    IF flags = 0 THEN <<TRUE, FALSE>>
    ELSE IF contains(flags, WRONLY) THEN <<FALSE, TRUE>>
    ELSE <<TRUE, TRUE>>

\* an fd-table slot that holds the OSInode with this id
OSInodeFile(id) == [kind |-> "inode", pipe |-> id]

\* OSInode::new; the model notes the name the file was opened by
OSInode_new(readable, writable, inode, name) ==
    [readable |-> readable, writable |-> writable, offset |-> 0, inode |-> inode, name |-> name]

FileNoCall == [n |-> 0, op |-> "none"]

FileInit ==
    /\ osinodes = <<>>
    /\ fileRef = <<>>
    /\ fileLast = FileNoCall

\* what a file system call leaves alone outside the filesystem and the task
FileFrame ==
    /\ UNCHANGED <<cacheVars, s1Vars, mmVars, sysVars, calcVars, trapVars, bmVars>>
    /\ UNCHANGED <<pid_current, pid_recycled, ready_queue, current, pipes, locks, ahead,
                   written, delivered, nSent>>

\* the reference contents of the files: ref with the file called name set to bytes
RefPut(ref, name, bytes) ==
    [x \in DOMAIN ref \cup {name} |-> IF x = name THEN bytes ELSE ref[x]]

\* the reference contents after buf is written at offset
RefWrite(old, offset, buf) ==
    [i \in 1..Max(Len(old), offset + Len(buf)) |->
        IF i > offset /\ i <= offset + Len(buf) THEN buf[i - offset]
        ELSE IF i <= Len(old) THEN old[i] ELSE 0]

\* sys_open(path, flags), open_file included
SysOpen(name, flags) ==
    /\ InUser(current)
    /\ fileLast.n < MaxFileOps
    /\ FileFrame
    /\ LET found == find_inode_id(name, dinode[0], disk)
           rw == read_write(flags)
           r == alloc_fd(tcb[current].fd_table)
           id == Len(osinodes) + 1
           existed == name \in DOMAIN fileRef
           last == [n |-> fileLast.n + 1, op |-> "open", name |-> name, flags |-> flags,
                    existed |-> existed]
           Opened(inode) ==
               /\ osinodes' = Append(osinodes, OSInode_new(rw[1], rw[2], inode, name))
               /\ tcb' = [tcb EXCEPT ![current].fd_table = [r.fd_table EXCEPT ![r.fd] = OSInodeFile(id)],
                                     ![current].a0 = r.fd - 1]
               /\ fileLast' = last @@ [ret |-> r.fd - 1]
           Cleared(inode) ==
               /\ FsClear(inode)
               /\ IF fsLast'.panic
                  THEN /\ khalt' = "panic"
                       /\ UNCHANGED <<osinodes, tcb>>
                       /\ fileLast' = last @@ [ret |-> NONE]
                  ELSE /\ khalt' = khalt
                       /\ Opened(inode)
       IN IF contains(flags, CREATE)
          THEN /\ fileRef' = RefPut(fileRef, name, <<>>)
               /\ IF found # NONE
                  THEN Cleared(found)
                  ELSE /\ FsCreate(name)
                       /\ khalt' = khalt
                       /\ IF fsLast'.ret # NONE
                          THEN Opened(fsLast'.ret)
                          ELSE /\ tcb' = [tcb EXCEPT ![current].a0 = 0 - 1]
                               /\ fileLast' = last @@ [ret |-> 0 - 1]
                               /\ UNCHANGED osinodes
          ELSE IF found = NONE
          THEN /\ tcb' = [tcb EXCEPT ![current].a0 = 0 - 1]
               /\ fileLast' = last @@ [ret |-> 0 - 1]
               /\ UNCHANGED <<fsVars, osinodes, fileRef, khalt>>
          ELSE IF contains(flags, TRUNC)
          THEN /\ fileRef' = RefPut(fileRef, name, <<>>)
               /\ Cleared(found)
          ELSE /\ khalt' = khalt
               /\ Opened(found)
               /\ UNCHANGED <<fsVars, fileRef>>

\* sys_write(fd, buf, len) on an fd that holds an OSInode, the buffer in one
\* page: OSInode::write
SysWriteFile(fd, buf) ==
    /\ InUser(current)
    /\ fileLast.n < MaxFileOps
    /\ FileFrame
    /\ fd < Len(tcb[current].fd_table)
    /\ tcb[current].fd_table[fd + 1].kind = "inode"
    /\ LET id == tcb[current].fd_table[fd + 1].pipe
           o == osinodes[id]
           old == IF o.name \in DOMAIN fileRef THEN fileRef[o.name] ELSE <<>>
       IN /\ FsWriteAt(o.inode, o.offset, buf)
          /\ fileRef' = RefPut(fileRef, o.name, RefWrite(old, o.offset, buf))
          /\ IF fsLast'.ret # Len(buf)
             THEN /\ khalt' = "panic"
                  /\ UNCHANGED <<osinodes, tcb>>
                  /\ fileLast' = [n |-> fileLast.n + 1, op |-> "write", fd |-> fd, buf |-> buf,
                                  ret |-> NONE]
             ELSE /\ khalt' = khalt
                  /\ osinodes' = [osinodes EXCEPT ![id].offset = @ + fsLast'.ret]
                  /\ tcb' = [tcb EXCEPT ![current].a0 = fsLast'.ret]
                  /\ fileLast' = [n |-> fileLast.n + 1, op |-> "write", fd |-> fd, buf |-> buf,
                                  ret |-> fsLast'.ret]

\* sys_read(fd, buf, len) on an fd that holds an OSInode, the buffer in one
\* page: OSInode::read
SysReadFile(fd, len) ==
    /\ InUser(current)
    /\ fileLast.n < MaxFileOps
    /\ FileFrame
    /\ fd < Len(tcb[current].fd_table)
    /\ tcb[current].fd_table[fd + 1].kind = "inode"
    /\ LET id == tcb[current].fd_table[fd + 1].pipe
           o == osinodes[id]
           ref == IF o.name \in DOMAIN fileRef THEN fileRef[o.name] ELSE <<>>
       IN /\ FsReadAt(o.inode, o.offset, len)
          /\ osinodes' = [osinodes EXCEPT ![id].offset = @ + fsLast'.ret]
          /\ tcb' = [tcb EXCEPT ![current].a0 = fsLast'.ret]
          /\ fileLast' = [n |-> fileLast.n + 1, op |-> "read", fd |-> fd, len |-> len,
                          ret |-> fsLast'.ret, out |-> fsLast'.out,
                          expect |-> SubSeq(ref, o.offset + 1, Min(Len(ref), o.offset + len))]
    /\ UNCHANGED <<fileRef, khalt>>

\* sys_dup(fd)
KDup(p, fd) ==
    /\ OsFrame
    /\ InUser(p)
    /\ Len(tcb[p].fd_table) <= MaxFdTable
    /\ LET ft == tcb[p].fd_table
       IN IF fd >= Len(ft)
          THEN tcb' = [tcb EXCEPT ![p].a0 = 0 - 1]
          ELSE IF ft[fd + 1] = NoFile
          THEN tcb' = [tcb EXCEPT ![p].a0 = 0 - 1]
          ELSE LET r == alloc_fd(ft)
               IN tcb' = [tcb EXCEPT ![p].fd_table = [r.fd_table EXCEPT ![r.fd] = ft[fd + 1]],
                                     ![p].a0 = r.fd - 1]
    /\ UNCHANGED <<pid_current, pid_recycled, ready_queue, current, pipes, locks, khalt,
                   ahead, written, delivered, nSent>>

SysDup(fd) == KDup(current, fd) /\ UNCHANGED s1Vars

\* the flags handed to sys_open
OpenFlagSets == {RDONLY, CREATE + WRONLY, TRUNC, CREATE}

\* the fds handed to sys_read, sys_write and sys_close of files: the first
\* two slots after the console's
FileFds == 3..4

(***************************************************************************)
(* os/mm: the kernel's address space (src/os/src/mm/memory_set.rs)         *)
(***************************************************************************)

\* MapPermission
MapPermission_R == 2
MapPermission_W == 4
MapPermission_X == 8

\* an address is <<page, offset in the page>>; VirtAddr::floor and
\* VirtAddr::ceil, (self.0 - 1 + PAGE_SIZE) / PAGE_SIZE
VirtAddr_floor(va) == va[1]
VirtAddr_ceil(va) == va[1] + (va[2] - 1 + PAGE_SIZE) \div PAGE_SIZE

\* (s + e) / 2 on addresses
MidAddr(s, e) ==
    LET q == (s[1] + e[1]) \div 2
        t == (((s[1] + e[1]) % 2) * PAGE_SIZE + s[2] + e[2]) \div 2
    IN <<q + t \div PAGE_SIZE, t % PAGE_SIZE>>

\* PTEFlags::from_bits of a MapPermission's bits: each bit of a u8 is a flag
PTEFlags_from_bits(bits) == bits % 2^8

\* PageTableEntry::writable and PageTableEntry::executable
writable(bits) == BitAnd(flags_of(bits), PTEFlags_W) # 0
executable(bits) == BitAnd(flags_of(bits), PTEFlags_X) # 0

\* the sections the linker lays out: each starts on a page where the one
\* before ends, .text holds the trampoline at its start, and ekernel is
\* KernelFreePages pages below MEMORY_END
KernelLayout(t, r, d, b) ==
    LET ek == MEMORY_END_PAGE - KernelFreePages
        sb == ek - b
        sd == sb - d
        sr == sd - r
        st == sr - t
    IN [stext |-> <<st, 0>>, etext |-> <<sr, 0>>, strampoline |-> <<st, 0>>,
        srodata |-> <<sr, 0>>, erodata |-> <<sd, 0>>,
        sdata |-> <<sd, 0>>, edata |-> <<sb, 0>>,
        sbss_with_stack |-> <<sb, 0>>, ebss |-> <<ek, 0>>,
        ekernel |-> <<ek, 0>>]

KernelLayouts ==
    {KernelLayout(t, r, d, b) :
        t \in 1..MaxSectionPages, r \in 1..MaxSectionPages,
        d \in 1..MaxSectionPages, b \in 1..MaxBssPages}

\* the one value of a set of one value
TheOne(S) == CHOOSE x \in S : TRUE

\* map_one giving every page every permission
map_one_rwx(st, vpn, map_perm) ==
    TheOne({IF s.panic # "no" THEN s
            ELSE map(s.fa, s.mem, s.pt, vpn, vpn,
                     BitOr(BitOr(MapPermission_R, MapPermission_W), MapPermission_X)) :
            s \in {st}})

\* MapArea::map_one of an Identical area, unless a panic ended the build
map_one(st, vpn, map_perm) ==
    TheOne({IF s.panic # "no" THEN s
            ELSE map(s.fa, s.mem, s.pt, vpn, vpn, PTEFlags_from_bits(map_perm)) :
            s \in {st}})

\* MapArea::map from vpn to the end of the range
RECURSIVE MapArea_map(_, _, _, _)
MapArea_map(st, vpn, end, map_perm) ==
    IF vpn >= end THEN st
    ELSE MapArea_map(map_one(st, vpn, map_perm), vpn + 1, end, map_perm)

\* MemorySet::push of MapArea::new(start_va, end_va, Identical, map_perm)
\* without data; VPNRange::new asserts start <= end
push(st, start_va, end_va, map_perm) ==
    TheOne({IF s.panic # "no" THEN s
            ELSE IF VirtAddr_floor(start_va) > VirtAddr_ceil(end_va)
            THEN [s EXCEPT !.panic = "range"]
            ELSE MapArea_map(s, VirtAddr_floor(start_va), VirtAddr_ceil(end_va), map_perm) :
            s \in {st}})

\* MemorySet::map_trampoline; the conversion of an address to a page number
\* asserts that its offset is 0
map_trampoline(st, lay) ==
    IF lay.strampoline[2] # 0 THEN [st EXCEPT !.panic = "unaligned"]
    ELSE map(st.fa, st.mem, st.pt, TrampolineVpn, VirtAddr_floor(lay.strampoline),
             BitOr(PTEFlags_R, PTEFlags_X))

\* MemorySet::new_kernel: new_bare, the trampoline, then the five areas
new_kernel(fa, m, lay) ==
    LET t == PageTable_new(fa, m)
        s0 == [fa |-> t.fa, mem |-> t.mem, pt |-> t.pt, panic |-> "no"]
        s1 == map_trampoline(s0, lay)
        s2 == push(s1, lay.stext, lay.etext, BitOr(MapPermission_R, MapPermission_X))
        s3 == push(s2, lay.srodata, lay.erodata, MapPermission_R)
        s4 == push(s3, lay.sdata, lay.edata, BitOr(MapPermission_W, MapPermission_R))
        s5 == push(s4, lay.sbss_with_stack, lay.ebss, BitOr(MapPermission_R, MapPermission_W))
    IN push(s5, lay.ekernel, <<MEMORY_END_PAGE, 0>>, BitOr(MapPermission_R, MapPermission_W))

\* remap_test: whether it ran to its end, the unwrap of a page that is not
\* mapped and a failed assert_eq both being panics
remap_test(m, pt, lay) ==
    LET mid_text == translate(m, pt, VirtAddr_floor(MidAddr(lay.stext, lay.etext)))
        mid_rodata == translate(m, pt, VirtAddr_floor(MidAddr(lay.srodata, lay.erodata)))
        mid_data == translate(m, pt, VirtAddr_floor(MidAddr(lay.sdata, lay.edata)))
    IN IF ~mid_text.some \/ writable(mid_text.bits) THEN FALSE
       ELSE IF ~mid_rodata.some \/ writable(mid_rodata.bits) THEN FALSE
       ELSE IF ~mid_data.some \/ executable(mid_data.bits) THEN FALSE
       ELSE TRUE

\* init_frame_allocator over [ekernel.ceil(), MEMORY_END.floor()) of a layout
KernelInit(lay) ==
    /\ frame_allocator = init(StackFrameAllocator_new, VirtAddr_ceil(lay.ekernel),
                              MEMORY_END_PAGE)
    /\ mem = [p \in VirtAddr_ceil(lay.ekernel)..(MEMORY_END_PAGE - 1) |->
                 [i \in PtIdxs |-> 0]]
    /\ page_table = NoTable
    /\ handed = {}
    /\ mmPanicked = FALSE
    /\ faLast = FaNoCall
    /\ ptLast = PtNoCall
    /\ CalcStart("new_kernel", lay)

\* KERNEL_SPACE: MemorySet::new_kernel
KernelSpace ==
    /\ calc.fn = "new_kernel" /\ ~calc.done
    /\ \E r \in {new_kernel(frame_allocator, mem, calc.in)} :
          /\ frame_allocator' = r.fa
          /\ mem' = r.mem
          /\ page_table' = r.pt
          /\ handed' = handed \cup {r.pt.frames[i] : i \in 1..Len(r.pt.frames)}
          /\ mmPanicked' = (r.panic # "no")
    /\ calc' = [calc EXCEPT !.fn = "remap_test"]
    /\ UNCHANGED <<faLast, ptLast>>
    /\ MmFrameButCalc

\* main: mm::remap_test
RemapTest ==
    /\ calc.fn = "remap_test" /\ ~calc.done /\ ~mmPanicked
    /\ calc' = [calc EXCEPT !.done = TRUE] @@
                [out |-> remap_test(mem, page_table, calc.in)]
    /\ CalcFrame

(***************************************************************************)
(* easy-fs: Bitmap on its blocks (src/easy-fs/src/bitmap.rs)               *)
(***************************************************************************)

\* type BitmapBlock = [u64; 64]; a u64 is the set of its set bits
BitmapBlockWords == 64
U64Bits == 64
u64_MAX == 0..(U64Bits - 1)

\* the most calls of the bitmap's specification, and the block its bitmap
\* starts at
MaxBmOps == 3
BmStart == 1

\* u64::trailing_zeros of the complement: the highest clear bit
trailing_ones_high(w) == CHOOSE i \in u64_MAX \ w : \A j \in u64_MAX \ w : j <= i

\* u64::trailing_ones of a word that is not u64::MAX: the lowest clear bit
trailing_ones(w) == CHOOSE i \in u64_MAX \ w : \A j \in u64_MAX \ w : i <= j

\* Bitmap::new
Bitmap_new(start_block_id, blocks) == [start_block_id |-> start_block_id, blocks |-> blocks]

\* Bitmap::maximum
maximum(bm) == bm.blocks * BLOCK_BITS

\* Bitmap::alloc from block block_id on: what it returns and the blocks after it
RECURSIVE Bitmap_alloc_from(_, _, _)
Bitmap_alloc_from(bm, d, block_id) ==
    IF block_id >= bm.blocks THEN [ret |-> NONE, dev |-> d]
    ELSE LET bitmap_block == d[block_id + bm.start_block_id]
             found == {i \in 0..(BitmapBlockWords - 1) : bitmap_block[i] # u64_MAX}
         IN IF found # {}
            THEN LET bits64_pos == CHOOSE i \in found : \A j \in found : i <= j
                     inner_pos == trailing_ones(bitmap_block[bits64_pos])
                 IN [ret |-> block_id * BLOCK_BITS + bits64_pos * 64 + inner_pos,
                     dev |-> [d EXCEPT ![block_id + bm.start_block_id][bits64_pos] =
                                 @ \cup {inner_pos}]]
            ELSE Bitmap_alloc_from(bm, d, block_id + 1)

\* Bitmap::decomposition
decomposition(bit) == <<bit \div BLOCK_BITS, (bit % BLOCK_BITS) \div 64, (bit % BLOCK_BITS) % 64>>

\* Bitmap::dealloc of a bit below maximum(): the blocks after it, or the panic
\* of its assert
Bitmap_dealloc(bm, d, bits) ==
    LET pos == decomposition(bits)
        block == pos[1] + bm.start_block_id
    IN IF pos[3] \notin d[block][pos[2]]
       THEN [panic |-> TRUE, dev |-> d]
       ELSE [panic |-> FALSE, dev |-> [d EXCEPT ![block][pos[2]] = @ \ {pos[3]}]]

\* a block whose first k bits are set
FilledBlock(k) ==
    [i \in 0..(BitmapBlockWords - 1) |-> {b \in u64_MAX : i * 64 + b < k}]

\* the blocks of a bitmap whose first k bits are set
FilledTo(bm, k) ==
    [b \in bm.start_block_id..(bm.start_block_id + bm.blocks - 1) |->
        FilledBlock(k - (b - bm.start_block_id) * BLOCK_BITS)]

\* whether bit b of the bitmap is set, and the blocks with bit b set or clear
\* and every other bit as it is
BitAt(bm, d, b) ==
    (b % U64Bits) \in d[bm.start_block_id + b \div BLOCK_BITS][(b % BLOCK_BITS) \div U64Bits]
WithBit(bm, d, b, on) ==
    [d EXCEPT ![bm.start_block_id + b \div BLOCK_BITS][(b % BLOCK_BITS) \div U64Bits] =
        IF on THEN @ \cup {b % U64Bits} ELSE @ \ {b % U64Bits}]

\* how many bits the bitmaps of the specification start with, counted from
\* the bitmap's last bit when below 0
BmFills == {0, 1, 63, 64, 65, 0 - 65, 0 - 64, 0 - 2, 0 - 1}

\* the bits the specification frees
BmBits == {0, 1, 63, 64, 4095, 4096, 8127, 8191}

BmNoCall == [op |-> "none", bits |-> NONE, ret |-> NONE, panic |-> FALSE, n |-> 0,
             before |-> <<>>, prev |-> "none", prev_bits |-> NONE]

\* no bitmap made
BmInit ==
    /\ bitmap = Bitmap_new(0, 0)
    /\ bmDev = <<>>
    /\ bmLast = BmNoCall

\* a bitmap of one or two blocks with its first bits set, all its bits but
\* the last ones, or all of them
BmStartWith(blocks, k) ==
    LET bm == Bitmap_new(BmStart, blocks)
    IN /\ bitmap = bm
       /\ bmDev = FilledTo(bm, IF k < 0 THEN maximum(bm) + k + 1 ELSE k)
       /\ bmLast = BmNoCall

BmGhost(op, bits) ==
    [op |-> op, bits |-> bits, n |-> bmLast.n + 1, before |-> bmDev,
     prev |-> bmLast.op, prev_bits |-> bmLast.bits]

BmAlloc ==
    /\ ~bmLast.panic /\ bmLast.n < MaxBmOps
    /\ \E r \in {Bitmap_alloc_from(bitmap, bmDev, 0)} :
          /\ bmDev' = r.dev
          /\ bmLast' = BmGhost("alloc", NONE) @@ [ret |-> r.ret, panic |-> FALSE]
    /\ UNCHANGED bitmap
    /\ BmFrame

BmDealloc(bits) ==
    /\ ~bmLast.panic /\ bmLast.n < MaxBmOps
    /\ bits < maximum(bitmap)
    /\ \E r \in {Bitmap_dealloc(bitmap, bmDev, bits)} :
          /\ bmDev' = r.dev
          /\ bmLast' = BmGhost("dealloc", bits) @@ [ret |-> NONE, panic |-> r.panic]
    /\ UNCHANGED bitmap
    /\ BmFrame

(***************************************************************************)
(* easy-fs: EasyFileSystem::create and open (src/easy-fs/src/efs.rs)       *)
(***************************************************************************)

\* the most blocks of inode bitmap handed to create, and how far around each
\* multiple of BLOCK_BITS + 1 the numbers of blocks left for data go
MaxEfsInodeBitmapBlocks == 2
MaxEfsSlack == 6

\* the u32 at offset off of a block
U32LE(bytes, off) ==
    bytes[off + 1] + 256 * bytes[off + 2] + 65536 * bytes[off + 3] + 16777216 * bytes[off + 4]

\* the data bitmap's blocks rounded down
data_bitmap_blocks_floor(data_total) == data_total \div (BLOCK_BITS + 1)

\* create: data_bitmap_blocks
data_bitmap_blocks_for(data_total) == (data_total + BLOCK_BITS) \div (BLOCK_BITS + 1)

\* EasyFileSystem::create with room for the inode area: the EasyFileSystem and
\* what SuperBlock::initialize leaves at the start of block 0
EasyFileSystem_create(total_blocks_, inode_bitmap_blocks) ==
    LET inode_bitmap == Bitmap_new(1, inode_bitmap_blocks)
        inode_num_ == maximum(inode_bitmap)
        inode_area_blocks_ == (inode_num_ * DISK_INODE_SZ + BLOCK_SZ - 1) \div BLOCK_SZ
        inode_total_blocks_ == inode_bitmap_blocks + inode_area_blocks_
        data_total_blocks_ == total_blocks_ - inode_total_blocks_ - 1
        data_bitmap_blocks_ == data_bitmap_blocks_for(data_total_blocks_)
        data_bitmap == Bitmap_new(1 + inode_bitmap_blocks + inode_area_blocks_,
                                  data_bitmap_blocks_)
        data_area_blocks_ == data_total_blocks_ - data_bitmap_blocks_
    IN [efs |-> [inode_bitmap |-> inode_bitmap,
                 data_bitmap |-> data_bitmap,
                 inode_area_start_block |-> 1 + inode_bitmap_blocks,
                 data_area_start_block |-> 1 + inode_total_blocks_ + data_bitmap_blocks_],
        block0 |-> LE32(EFS_MAGIC) \o LE32(total_blocks_) \o LE32(inode_bitmap_blocks)
                     \o LE32(inode_area_blocks_) \o LE32(data_bitmap_blocks_)
                     \o LE32(data_area_blocks_)]

\* block 0 seen as SuperBlock
SuperBlockAt(block0) ==
    [magic |-> U32LE(block0, 0), total_blocks |-> U32LE(block0, 4),
     inode_bitmap_blocks |-> U32LE(block0, 8), inode_area_blocks |-> U32LE(block0, 12),
     data_bitmap_blocks |-> U32LE(block0, 16), data_area_blocks |-> U32LE(block0, 20)]

\* EasyFileSystem::open
EasyFileSystem_open(block0) ==
    LET sb == SuperBlockAt(block0)
        inode_total_blocks_ == sb.inode_bitmap_blocks + sb.inode_area_blocks
    IN IF sb.magic # EFS_MAGIC THEN [panic |-> TRUE]
       ELSE [panic |-> FALSE,
             efs |-> [inode_bitmap |-> Bitmap_new(1, sb.inode_bitmap_blocks),
                      data_bitmap |-> Bitmap_new(1 + inode_total_blocks_, sb.data_bitmap_blocks),
                      inode_area_start_block |-> 1 + sb.inode_bitmap_blocks,
                      data_area_start_block |->
                          1 + inode_total_blocks_ + sb.data_bitmap_blocks]]

\* the blocks left for the data bitmap and the data area in the
\* specification: none, the FsTotalBlocks device's, and those around the
\* multiples of BLOCK_BITS + 1, where one more block of bitmap is needed
EfsDataTotals ==
    {data_total_blocks} \cup
    {n \in {k * (BLOCK_BITS + 1) + j - 2 : k \in 0..2, j \in 0..MaxEfsSlack} : n >= 0}

\* the arguments of create: a device with room for the superblock, the inode
\* bitmap and the inode area, and dt blocks more
EfsInputs ==
    {<<1 + ib + (ib * BLOCK_BITS * DISK_INODE_SZ + BLOCK_SZ - 1) \div BLOCK_SZ + dt, ib>> :
        ib \in 1..MaxEfsInodeBitmapBlocks, dt \in EfsDataTotals}

CalcEfsCreate ==
    /\ calc.fn = "EasyFileSystem::create" /\ ~calc.done
    /\ calc' = [fn |-> "EasyFileSystem::open", in |-> calc.in, done |-> FALSE,
                created |-> EasyFileSystem_create(calc.in[1], calc.in[2])]
    /\ CalcFrame

CalcEfsOpen ==
    /\ calc.fn = "EasyFileSystem::open" /\ ~calc.done
    /\ calc' = [calc EXCEPT !.done = TRUE] @@ [out |-> EasyFileSystem_open(calc.created.block0)]
    /\ CalcFrame

(***************************************************************************)
(* os: the TCB inner locks a kernel path holds (task.rs, process.rs,       *)
(* processor.rs)                                                           *)
(***************************************************************************)

\* the tasks whose inner lock a path holds, after each acquire_inner_lock
\* and after each drop of a guard, in order.
\* TCB::fork: parent_inner lives to the end of the function, the guard of
\* tcb.acquire_inner_lock().get_trap_cx() to the end of its statement
TCB_fork_held(parent, child) == <<{parent}, {parent, child}, {parent}, {}>>

\* sys_fork: TCB::fork, then new_task.acquire_inner_lock().get_trap_cx()
sys_fork_held(p, child) == TCB_fork_held(p, child) \o <<{child}, {}>>

\* sys_waitpid: inner lives to the end of the function; the closure of the
\* second find locks each child up to the one it stops at, and
\* child.acquire_inner_lock().exit_code locks the child found
sys_waitpid_held(t, p, pid) ==
    LET kids == t[p].children
        idx == first_zombie(t, p, pid)
        last == IF idx = 0 THEN Len(kids) ELSE idx
        probe(i) == IF i % 2 = 1 THEN {p, kids[(i + 1) \div 2]} ELSE {p}
    IN IF Matching(t, p, pid) = {} THEN <<{p}, {}>>
       ELSE <<{p}>> \o [i \in 1..(2 * last) |-> probe(i)]
                \o (IF idx = 0 THEN <<{}>> ELSE <<{p, kids[idx]}, {p}, {}>>)

\* Processor::run: task_inner, dropped before __switch
Processor_run_held(task) == <<{task}, {}>>

\* a path that holds two inner locks at once
HoldsTwo(held) == \E i \in 1..Len(held) : Cardinality(held[i]) > 1

(***************************************************************************)
(* easy-fs: the block-cache locks an operation of Inode asks for (vfs.rs,  *)
(* layout.rs, efs.rs, bitmap.rs)                                           *)
(***************************************************************************)

\* A request is <<held, want>>: get_block_cache(want).lock() by code that
\* holds the locks of the blocks in held.  spin::Mutex does not re-enter: a
\* request of a block that is held spins for ever.
SelfLock(w) == w[2] \in w[1]

\* ---- bounds of the lock model ----
LockInos == {1, 4, 5}                \* inode ids of the file operated on
LockFirst == {1, 1536, 786944, 1075200}   \* end of the first write_at on the fresh file
LockOffsets == {0, 1, 1024, 1535, 1536, 2047, 2048}
LockLens == {1, 2, 513}

\* the start blocks EasyFileSystem::create gives the two bitmaps
inode_bitmap_start_block == 1
data_bitmap_start_block == 1 + inode_total_blocks

\* EasyFileSystem::alloc_data n times in a row on a data bitmap whose lowest k
\* bits are set and no other: Bitmap::alloc returns the first clear bit
alloc_data_run(k, n) == [i \in 1..n |-> data_area_start_block + k + i - 1]

\* the blocks DiskInode::read_at and DiskInode::write_at hand to
\* get_block_cache for len bytes at offset
rw_blocks(di, offset, len) ==
    LET end == Min(offset + len, di.size)
    IN IF offset >= end THEN {} ELSE {p \div BLOCK_SZ : p \in offset..(end - 1)}

\* DiskInode::read_at and write_at: one lock for each block of the loop
DiskInode_rw_wants(held, di, offset, len) == {<<held, b>> : b \in rw_blocks(di, offset, len)}

\* DiskInode::increase_size(new_size, ..): the single-indirect block, the
\* double-indirect root and, while the root is held, each leaf that is filled.
\* r is what DiskInode_increase_size returns for the same call.
DiskInode_increase_size_wants(held, di, new_size, r) ==
    LET cur0 == data_blocks_of(di.size)
        tot0 == data_blocks_of(new_size)
        cur1 == IF cur0 < Min(tot0, INODE_DIRECT_COUNT) THEN Min(tot0, INODE_DIRECT_COUNT) ELSE cur0
        cur2 == cur1 - INODE_DIRECT_COUNT
        tot1 == tot0 - INODE_DIRECT_COUNT
        cur3 == IF cur2 < Min(tot1, INODE_INDIRECT1_COUNT) THEN Min(tot1, INODE_INDIRECT1_COUNT) ELSE cur2
        root == r.di.indirect2
    IN IF tot0 <= INODE_DIRECT_COUNT THEN {}
       ELSE {<<held, r.di.indirect1>>} \cup
            IF tot1 <= INODE_INDIRECT1_COUNT THEN {}
            ELSE {<<held, root>>} \cup
                 {<<held \cup {root}, IndGet(r.ind, root)[p \div INODE_INDIRECT1_COUNT]>> :
                      p \in (cur3 - INODE_INDIRECT1_COUNT)..(tot1 - INODE_INDIRECT1_COUNT - 1)}

\* Inode::increase_size (vfs.rs): Bitmap::alloc locks the block of the data
\* bitmap for each block it allocates (the bitmap has one block and room),
\* then DiskInode::increase_size is called with blocks_needed
Inode_increase_size_wants(held, di, new_size, r) ==
    IF new_size < di.size THEN {}
    ELSE (IF blocks_num_needed(di, new_size) > 0 THEN {<<held, data_bitmap_start_block>>} ELSE {})
         \cup DiskInode_increase_size_wants(held, di, blocks_num_needed(di, new_size), r)

\* DiskInode::clear_size: the single-indirect block, the double-indirect root
\* and, while the root is held, each full leaf and the block a1 for the last one
DiskInode_clear_size_wants(held, di, iv) ==
    LET d == data_blocks_of(di.size)
        d2 == d - INODE_DIRECT_COUNT
        d3 == d2 - INODE_INDIRECT1_COUNT
        a1 == d3 \div INODE_INDIRECT1_COUNT
        b1 == d3 % INODE_INDIRECT1_COUNT
        root == IndGet(iv, di.indirect2)
    IN IF d <= INODE_DIRECT_COUNT THEN {}
       ELSE {<<held, di.indirect1>>} \cup
            IF d2 <= INODE_INDIRECT1_COUNT \/ d3 > INODE_INDIRECT1_COUNT * INODE_INDIRECT1_COUNT THEN {}
            ELSE {<<held, di.indirect2>>}
                 \cup {<<held \cup {di.indirect2}, root[i]>> : i \in 0..(a1 - 1)}
                 \cup (IF b1 > 0 THEN {<<held \cup {di.indirect2}, a1>>} ELSE {})

\* Inode::clear: clear_size, then Bitmap::dealloc locks the block of the data
\* bitmap for each id, up to the first assertion that fails
Inode_clear_wants(held, di, iv, bits) ==
    LET c == DiskInode_clear_size(di, iv)
    IN DiskInode_clear_size_wants(held, di, iv) \cup
       IF c.panic \/ Len(c.v) # total_blocks(di.size) THEN {}
       ELSE {<<held, data_bitmap_start_block + (c.v[k] - data_area_start_block) \div BLOCK_BITS>> :
                k \in {j \in 1..Len(c.v) :
                          /\ c.v[j] >= data_area_start_block
                          /\ ~dealloc_data_all(SubSeq(c.v, 1, j - 1), 1, bits).panic}}

\* Inode::find_inode_id and Inode::ls: read_at of each entry
dir_entries_wants(held, di) ==
    UNION {DiskInode_rw_wants(held, di, i * DIRENTRY_SZ, DIRENTRY_SZ) :
              i \in 0..((di.size \div DIRENTRY_SZ) - 1)}

\* the requests of one operation of Inode, in.op, on the inode in.ino whose
\* DiskInode is di; root is the DiskInode of the root directory, iv the
\* indirect blocks, k the number of data blocks allocated, new_id the inode
\* id alloc_inode returns.  read_disk_node and modify_disk_node hold the
\* lock of the inode's block while the closure runs.
Inode_wants(in, di, root, iv, k, new_id) ==
    LET blk == get_disk_inode_pos(in.ino)[1]
        rblk == get_disk_inode_pos(0)[1]
        bits == 0..(k - 1)
    IN CASE in.op = "read_at" ->
              {<<{}, blk>>} \cup DiskInode_rw_wants({blk}, di, in.offset, in.len)
         [] in.op = "write_at" ->
              LET r == TheOne({DiskInode_increase_size(
                                   d, blocks_num_needed(d, in.offset + in.len),
                                   alloc_data_run(k, blocks_num_needed(d, in.offset + in.len)), iv) :
                               d \in {di}})
                  after == IF in.offset + in.len < di.size THEN di ELSE r.di
              IN {<<{}, blk>>}
                 \cup Inode_increase_size_wants({blk}, di, in.offset + in.len, r)
                 \cup DiskInode_rw_wants({blk}, after, in.offset, in.len)
         [] in.op = "clear" ->
              {<<{}, blk>>} \cup Inode_clear_wants({blk}, di, iv, bits)
         [] in.op \in {"find", "ls"} ->
              {<<{}, rblk>>} \cup dir_entries_wants({rblk}, root)
         [] in.op = "create" ->
              LET file_count == root.size \div DIRENTRY_SZ
                  new_size == (file_count + 1) * DIRENTRY_SZ
                  r == TheOne({DiskInode_increase_size(
                                   d, blocks_num_needed(d, new_size),
                                   alloc_data_run(k, blocks_num_needed(d, new_size)), iv) :
                               d \in {root}})
                  after == IF new_size < root.size THEN root ELSE r.di
              IN {<<{}, rblk>>} \cup dir_entries_wants({rblk}, root)
                 \cup {<<{}, inode_bitmap_start_block>>, <<{}, get_disk_inode_pos(new_id)[1]>>}
                 \cup Inode_increase_size_wants({rblk}, root, new_size, r)
                 \cup DiskInode_rw_wants({rblk}, after, file_count * DIRENTRY_SZ, DIRENTRY_SZ)

\* the root directory after the create of the file: Inode::increase_size
\* leaves it one byte long, its entry in the first data block
RootAfterCreate ==
    DiskInode_increase_size(DiskInode_initialize("Directory"),
                            blocks_num_needed(DiskInode_initialize("Directory"), DIRENTRY_SZ),
                            alloc_data_run(0, 1), <<>>).di

LockOps == {"find", "ls", "create", "clear", "read_at", "write_at"}
LockInputs == [ino : LockInos, first : LockFirst, op : LockOps, offset : LockOffsets, len : LockLens]

\* the first write_at on the file just created, ending at calc.in.first
CalcLockFirst ==
    /\ calc.fn = "first Inode::write_at" /\ ~calc.done
    /\ \E r \in {DiskInode_increase_size(
                     DiskInode_initialize("File"),
                     blocks_num_needed(DiskInode_initialize("File"), calc.in.first),
                     alloc_data_run(1, blocks_num_needed(DiskInode_initialize("File"), calc.in.first)),
                     <<>>)} :
         calc' = [fn |-> "Inode::" \o calc.in.op, in |-> calc.in, done |-> FALSE,
                  di |-> r.di, ind |-> r.ind,
                  k |-> 1 + blocks_num_needed(DiskInode_initialize("File"), calc.in.first),
                  wants |-> Inode_wants([ino |-> calc.in.ino, op |-> "write_at",
                                         offset |-> calc.in.first - 1, len |-> 1],
                                        DiskInode_initialize("File"), RootAfterCreate, <<>>, 1, 0)]
    /\ CalcFrame

\* the operation calc.in.op after it
CalcLockOp ==
    /\ calc.fn \in {"Inode::" \o op : op \in LockOps} /\ ~calc.done
    /\ "di" \in DOMAIN calc
    /\ calc' = [calc EXCEPT !.done = TRUE,
                            !.wants = Inode_wants(calc.in, calc.di, RootAfterCreate, calc.ind,
                                                  calc.k, calc.in.ino + 1)]
    /\ CalcFrame

(***************************************************************************)
(* easy-fs: EasyFileSystem::alloc_data and dealloc_data on the data        *)
(* bitmap of the device create formatted (src/easy-fs/src/efs.rs)          *)
(***************************************************************************)

\* the most calls of the specification
MaxAdOps == 4

\* the EasyFileSystem of the device of FsTotalBlocks blocks
AdEfs == EasyFileSystem_create(FsTotalBlocks, FsInodeBitmapBlocks).efs

\* how many data blocks have been allocated when the specification starts:
\* none, a few, all the blocks of the data area but one, all of them
AdFills == {0, 1, 64, data_area_blocks - 1, data_area_blocks}

\* the block ids the specification frees
AdIds == {AdEfs.data_area_start_block, AdEfs.data_area_start_block + 1,
          AdEfs.data_area_start_block + 64,
          AdEfs.data_area_start_block + data_area_blocks - 1,
          AdEfs.data_area_start_block + data_area_blocks}

\* the data bitmap after k calls of alloc_data; held are the ids handed out
\* and not given back
AdStartWith(k) ==
    /\ bitmap = AdEfs.data_bitmap
    /\ bmDev = FilledTo(AdEfs.data_bitmap, k)
    /\ bmLast = [op |-> "none", n |-> 0, panic |-> FALSE, ret |-> NONE,
                 held |-> {AdEfs.data_area_start_block + b : b \in 0..(k - 1)},
                 was_held |-> {}]

\* EasyFileSystem::alloc_data: data_bitmap.alloc().unwrap() + data_area_start_block
AdAlloc ==
    /\ ~bmLast.panic /\ bmLast.n < MaxAdOps
    /\ \E r \in {Bitmap_alloc_from(bitmap, bmDev, 0)} :
          /\ bmDev' = r.dev
          /\ bmLast' = IF r.ret = NONE
                       THEN [bmLast EXCEPT !.op = "alloc_data", !.n = @ + 1, !.panic = TRUE,
                                           !.ret = NONE, !.was_held = bmLast.held]
                       ELSE [bmLast EXCEPT !.op = "alloc_data", !.n = @ + 1,
                                           !.ret = r.ret + AdEfs.data_area_start_block,
                                           !.held = @ \cup {r.ret + AdEfs.data_area_start_block},
                                           !.was_held = bmLast.held]
    /\ UNCHANGED bitmap
    /\ BmFrame

\* EasyFileSystem::dealloc_data of a block the caller holds
AdDealloc(block_id) ==
    /\ ~bmLast.panic /\ bmLast.n < MaxAdOps
    /\ block_id \in bmLast.held
    /\ \E r \in {Bitmap_dealloc(bitmap, bmDev, block_id - AdEfs.data_area_start_block)} :
          /\ bmDev' = r.dev
          /\ bmLast' = [bmLast EXCEPT !.op = "dealloc_data", !.n = @ + 1, !.panic = r.panic,
                                      !.ret = NONE, !.held = @ \ {block_id},
                                      !.was_held = bmLast.held]
    /\ UNCHANGED bitmap
    /\ BmFrame

(***************************************************************************)
(* Specifications                                                          *)
(***************************************************************************)

InitFs == FileInit /\ BmInit /\ TrapInit /\ CalcInit /\ SysInit /\ FsInit /\ CacheInit /\ OsInit /\ S1Init /\ MmInit

InitCache == FileInit /\ BmInit /\ TrapInit /\ CalcInit /\ SysInit /\ FsInit /\ OsInit /\ S1Init /\ MmInit /\ \E q \in CacheStarts : CacheStart(q)

InitOs == FileInit /\ BmInit /\ TrapInit /\ CalcInit /\ SysInit /\ FsInit /\ CacheInit /\ OsInit /\ S1Init /\ MmInit

InitFrame == FileInit /\ BmInit /\ TrapInit /\ CalcInit /\ SysInit /\ FsInit /\ CacheInit /\ OsInit /\ S1Init /\ \E n \in {1, MaxFrames} : FrameInit(n)

FsNext ==
    \/ \E name \in Names : Create(name)
    \/ \E ino \in 1..MaxFiles, offset \in 0..MaxOff, buf \in Bufs : WriteAt(ino, offset, buf)
    \/ \E ino \in 1..MaxFiles, offset \in 0..MaxOff, len \in 1..MaxLen : ReadAt(ino, offset, len)
    \/ \E ino \in 1..MaxFiles : Clear(ino)

SpecFs == InitFs /\ [][FsNext]_vars

SpecCache == InitCache /\ [][CacheNext]_vars

\* allocations and releases of physical pages, the released page any page number
FrameNext ==
    \/ FaAlloc
    \/ \E ppn \in 0..(FrameStart + MaxFrames) : FaDealloc(ppn)

SpecFrame == InitFrame /\ [][FrameNext]_vars

InitPt == FileInit /\ BmInit /\ TrapInit /\ CalcInit /\ SysInit /\ FsInit /\ CacheInit /\ OsInit /\ S1Init /\ \E n \in PtPools : PtInit(n)

\* maps, unmaps and translations of the pages of PtVpns
PtNext ==
    \/ \E vpn \in PtVpns, ppn \in PtPpns, flags \in PtFlags : PtMap(vpn, ppn, flags)
    \/ \E vpn \in PtVpns : PtUnmap(vpn)
    \/ \E vpn \in PtVpns : PtTranslate(vpn)

SpecPt == InitPt /\ [][PtNext]_vars

InitSys == FileInit /\ BmInit /\ TrapInit /\ CalcInit /\ FsInit /\ CacheInit /\ OsInit /\ S1Init /\ MmInit /\ SysInit

\* system calls of user programs, one after the other
SysNext == \E id \in EcallIds, a0 \in 0..MaxArg, a1 \in 0..MaxArg, a2 \in 0..MaxArg :
               Ecall(id, <<a0, a1, a2>>)

SpecSys == InitSys /\ [][SysNext]_vars

CalcIdle == FileInit /\ BmInit /\ TrapInit /\ FsInit /\ CacheInit /\ OsInit /\ S1Init /\ MmInit /\ SysInit

InitInodePos == CalcIdle /\ \E id \in InodeIds : CalcStart("get_disk_inode_pos", id)

SpecInodePos == InitInodePos /\ [][CalcInodePos]_vars

InitTotalBlocks == CalcIdle /\ \E size \in CalcSizes : CalcStart("total_blocks", size)

SpecTotalBlocks == InitTotalBlocks /\ [][\E checked \in BOOLEAN : CalcTotalBlocks(checked)]_vars

InitGetBlockId ==
    /\ CalcIdle
    /\ \E d \in CalcFileBlocks : \E inner_id \in 0..(d - 1) :
           LET f == GrownFile(d)
           IN CalcStart("get_block_id", [di |-> f.di, ind |-> IndPut(f.ind, 0, SuperBlockWords),
                                         inner_id |-> inner_id])

SpecGetBlockId == InitGetBlockId /\ [][CalcGetBlockId]_vars

InitIncreaseSize ==
    /\ CalcIdle
    /\ \E d0 \in CalcOldBlocks, d1 \in CalcNewBlocks :
           /\ d0 <= d1
           /\ LET f == GrownFile(d0)
              IN CalcStart("increase_size",
                           [di |-> f.di, ind |-> f.ind, new_size |-> d1 * BLOCK_SZ,
                            new_blocks |-> NewIds(f.di, d0, d1 * BLOCK_SZ)])

SpecIncreaseSize == InitIncreaseSize /\ [][CalcIncreaseSize]_vars

InitKernel ==
    /\ FileInit /\ BmInit /\ TrapInit /\ FsInit /\ CacheInit /\ OsInit /\ S1Init /\ SysInit
    /\ \E lay \in KernelLayouts : KernelInit(lay)

KernelNext == KernelSpace \/ RemapTest

SpecKernel == InitKernel /\ [][KernelNext]_vars

InitBitmap ==
    /\ FileInit /\ TrapInit /\ CalcInit /\ FsInit /\ CacheInit /\ OsInit /\ S1Init /\ MmInit /\ SysInit
    /\ \E blocks \in 1..2, k \in BmFills : BmStartWith(blocks, k)

BitmapNext ==
    \/ BmAlloc
    \/ \E bits \in BmBits : BmDealloc(bits)

SpecBitmap == InitBitmap /\ [][BitmapNext]_vars

InitEfs == CalcIdle /\ \E in \in EfsInputs : CalcStart("EasyFileSystem::create", in)

EfsNext == CalcEfsCreate \/ CalcEfsOpen

SpecEfs == InitEfs /\ [][EfsNext]_vars

InitFsLock == CalcIdle /\ \E in \in LockInputs : CalcStart("first Inode::write_at", in)

FsLockNext == CalcLockFirst \/ CalcLockOp

SpecFsLock == InitFsLock /\ [][FsLockNext]_vars

InitAllocData ==
    /\ FileInit /\ TrapInit /\ CalcInit /\ FsInit /\ CacheInit /\ OsInit /\ S1Init /\ MmInit /\ SysInit
    /\ \E k \in AdFills : AdStartWith(k)

AllocDataNext ==
    \/ AdAlloc
    \/ \E block_id \in AdIds : AdDealloc(block_id)

SpecAllocData == InitAllocData /\ [][AllocDataNext]_vars

InitTrap == CalcInit /\ FsInit /\ CacheInit /\ OsInit /\ S1Init /\ MmInit /\ SysInit /\ TrapInit /\ FileInit /\ BmInit

\* one task's system calls, each handled in three steps
TrapNext ==
    \/ \E a7 \in TrapIds, a0 \in {0, MaxArg}, skip \in {0, 4} : UserEcall(a7, a0, 1, 2, skip)
    \/ TrapSepc
    \/ \E ret \in {0 - 1, 0, 1} : TrapSyscall(ret)
    \/ TrapExit
    \/ TrapExecFails
    \/ \E argc \in 0..MaxArgc, ppn \in 0..(MaxTrapPages - 1) : TrapExec(argc, ppn)
    \/ TrapWrite

SpecTrap == InitTrap /\ [][TrapNext]_vars

\* one task that opens, writes, reads and closes files
FileNext ==
    \/ Run
    \/ \E name \in Names, flags \in OpenFlagSets : SysOpen(name, flags)
    \/ \E fd \in FileFds, buf \in Bufs : SysWriteFile(fd, buf)
    \/ \E fd \in FileFds, len \in 1..MaxLen : SysReadFile(fd, len)
    \/ \E fd \in FileFds : SysClose(fd)

SpecFile == InitOs /\ [][FileNext]_vars

\* one task that fills and empties the slots of its fd table
FdNext ==
    \/ Run
    \/ SysOpen(<<97>>, CREATE)
    \/ \E fd \in 2..MaxFdTable : SysDup(fd)
    \/ \E fd \in 2..MaxFdTable : SysClose(fd)
    \/ SysPipe

SpecFd == InitOs /\ [][FdNext]_vars

\* tasks that fork, exit, wait and yield
TaskNext ==
    \/ Run
    \/ Timer
    \/ SysYield
    \/ SysFork(MaxTasks)
    \/ \E code \in 0..MaxCode : SysExit(code)
    \/ \E pid \in WaitPids : SysWaitpid(pid)

SpecTask == InitOs /\ [][TaskNext]_vars

\* tasks that share a pipe
PipeNext ==
    \/ Run
    \/ Timer
    \/ SysFork(MaxPipeTasks)
    \/ SysExit(0)
    \/ SysWaitpid(0 - 1)
    \/ SysPipe
    \/ \E fd \in Fds : SysClose(fd)
    \/ \E fd \in Fds, len \in ReadLens : SysRead(fd, len)
    \/ \E fd \in Fds, n \in WriteLens : SysWrite(fd, n)

SpecPipe == InitOs /\ [][PipeNext]_vars

\* scenario S1.  The idle loop keeps dispatching; a task that is dispatched gets
\* to make its next call before some timer interrupt or other.
S1Next ==
    \/ Run
    \/ Timer
    \/ S1Parent
    \/ S1Child

SpecS1 ==
    InitOs /\ [][S1Next]_vars /\ WF_vars(Run) /\ SF_vars(S1Parent) /\ SF_vars(S1Child)

(***************************************************************************)
(* Claims                                                                  *)
(***************************************************************************)

\* C1: for a file freshly created with Inode::create, write_at(0, B) followed by
\* read_at(0, buf) with |buf| = |B| returns |B| and fills buf with exactly B.
C1_WriteReadRoundTrip ==
    (fsLast.op = "read" /\ fsLast.after_fresh_write /\ fsLast.offset = 0
        /\ fsLast.len = Len(fsLast.wbuf))
    => (fsLast.ret = Len(fsLast.wbuf) /\ fsLast.out = fsLast.wbuf)

\* C2: write_at(offset, buf) returns buf.len() and leaves the inode's size equal
\* to max(old size, offset + buf.len()).
C2_WriteSize ==
    fsLast.op = "write"
    => (/\ fsLast.ret = Len(fsLast.buf)
        /\ dinode[fsLast.ino].size = Max(fsLast.old_size, fsLast.offset + Len(fsLast.buf)))

\* the pids in a children list that sys_waitpid(pid, _) is about
MatchingPids(kids, pid) == {c \in InQueue(kids) : pid = 0 - 1 \/ pid = c}

\* the list kids without the pid c
Without(kids, c) == SelectSeq(kids, LAMBDA x : x # c)

\* what the claim says of a step of sys_waitpid(pid, ptr) made by task p
WaitpidPost(p, pid) ==
    LET kids == tcb[p].children
        m == MatchingPids(kids, pid)
        z == {c \in m : tcb[c].task_status = "Zombie"}
    IN IF m = {}
       THEN tcb' = [tcb EXCEPT ![p].a0 = 0 - 1]
       ELSE IF z = {}
       THEN tcb' = [tcb EXCEPT ![p].a0 = 0 - 2]
       ELSE \E c \in z :
               /\ tcb'[p].a0 = c
               /\ tcb'[p].ucode = tcb[c].exit_code
               /\ tcb'[p].children = Without(kids, c)

ZombieKeptOrReturned(z) ==
    LET par == tcb[z].parent
    IN IF z \in DOMAIN tcb'
       THEN /\ tcb'[z].task_status = "Zombie"
            /\ tcb'[z].exit_code = tcb[z].exit_code
            /\ z \in InQueue(tcb'[tcb'[z].parent].children)
       ELSE /\ current = par
            /\ \E pid \in WaitPids : SysWaitpid(pid)
            /\ tcb'[par].a0 = z
            /\ tcb'[par].ucode = tcb[z].exit_code
            /\ \A q \in DOMAIN tcb' : z \notin InQueue(tcb'[q].children)

ReadEnds(p) ==
    {fd \in Fds : fd < Len(tcb[p].fd_table) /\ tcb[p].fd_table[fd + 1].kind = "pipe_r"}

\* what the claim says of a step in which a read of pipe pp by task p returns,
\* the buffer being of length want with done bytes in it before the step
ReadReturned(p, pp, want, done) ==
    /\ tcb'[p].a0 = done + Len(delivered'[pp]) - Len(delivered[pp])
    /\ \/ tcb'[p].a0 = want
       \/ available_read(pipes'[pp]) = 0 /\ WriteRefs(tcb', pp) = 0

\* a pipe read returns, from the call or after a suspension, only with the buffer
\* filled or with the ring empty and no write end left, and returns the number
\* of bytes read
C8_ReadReturnsOnly ==
    \A p \in DOMAIN tcb :
        /\ \A fd \in ReadEnds(p), len \in ReadLens :
              (KRead(p, fd, len) /\ tcb'[p].kcont = NoCont /\ khalt' = "no")
                  => ReadReturned(p, tcb[p].fd_table[fd + 1].pipe, len, 0)
        /\ (Run /\ current' = p /\ tcb[p].kcont.op = "read" /\ tcb'[p].kcont = NoCont
                /\ khalt' = "no")
              => ReadReturned(p, tcb[p].kcont.file.pipe, tcb[p].kcont.want, tcb[p].kcont.done)

C10_CacheHit ==
    /\ (cacheLast.op = "get" /\ cacheLast.was_cached)
          => /\ queue = cacheLast.queue_before
             /\ ~cacheLast.dev_read
             /\ \E i \in 1..Len(queue) :
                   queue[i].block_id = cacheLast.block_id /\ queue[i].eid = cacheLast.ret
    /\ \A i, j \in 1..Len(queue) : queue[i].block_id = queue[j].block_id => i = j
    /\ \A g, h \in DOMAIN handles :
          (handles[g] # NoHandle /\ handles[h] # NoHandle /\ handles[g].block_id = handles[h].block_id)
              => handles[g].eid = handles[h].eid
    /\ cacheLast.op = "read" => cacheLast.val = latest[cacheLast.block_id]

\* a second holder got the entry a first holder had modified, and read it
C10_Witness ==
    /\ cacheLast.op = "read"
    /\ cacheLast.val # 0
    /\ \E g \in DOMAIN handles :
          g # cacheLast.slot /\ handles[g] # NoHandle /\ handles[g].block_id = cacheLast.block_id

\* the last call was a get_block_cache that missed
CacheMissed == cacheLast.op = "get" /\ ~cacheLast.was_cached

\* entry i of the queue the last get_block_cache found had a holder other than
\* the manager: a long-lived one, or a caller's handle (the slot the call
\* itself filled is not one of them)
HeldBefore(i) ==
    LET e == cacheLast.queue_before[i]
    IN \/ e.extra = 1
       \/ \E h \in DOMAIN handles \ {cacheLast.slot} : handles[h].eid = e.eid

\* C11: a get_block_cache of an uncached block that finds 16 entries removes
\* exactly one, the one nearest the front that no one but the manager holds;
\* entries with an external holder stay, the others keep their order, and the
\* new block is appended at the back.
C11_EvictFirstFree ==
    (CacheMissed /\ Len(cacheLast.queue_before) = BLOCK_CACHE_SIZE /\ ~cachePanicked)
    => LET qb == cacheLast.queue_before
       IN \E v \in 1..BLOCK_CACHE_SIZE :
             /\ ~HeldBefore(v)
             /\ \A j \in 1..(v - 1) : HeldBefore(j)
             /\ Len(queue) = BLOCK_CACHE_SIZE
             /\ \A i \in 1..(v - 1) : queue[i] = qb[i]
             /\ \A i \in v..(BLOCK_CACHE_SIZE - 1) : queue[i] = qb[i + 1]
             /\ queue[BLOCK_CACHE_SIZE].block_id = cacheLast.block_id
             /\ queue[BLOCK_CACHE_SIZE].eid = cacheLast.ret

\* a miss on a full queue whose front entry a caller holds and whose second
\* entry no one holds: the second entry went, the front entry stayed
C11_Witness ==
    /\ CacheMissed
    /\ ~cachePanicked
    /\ Len(cacheLast.queue_before) = BLOCK_CACHE_SIZE
    /\ HeldBefore(1)
    /\ ~HeldBefore(2)
    /\ cacheLast.queue_before[3].extra = 0
    /\ queue[1] = cacheLast.queue_before[1]
    /\ queue[2] = cacheLast.queue_before[3]

\* the entry the last get_block_cache evicted
Evicted ==
    LET qb == cacheLast.queue_before
        gone == {i \in 1..Len(qb) : \A j \in 1..Len(queue) : queue[j].eid # qb[i].eid}
    IN qb[CHOOSE i \in gone : TRUE]

\* C12: what callers wrote into a block is in its entry while the block is
\* cached and on the device once the entry has been evicted, so a later
\* get_block_cache of the block reads it back; the eviction of a modified entry
\* makes one write_block of its contents, that of an unmodified entry none.
C12_WriteBack ==
    /\ \A b \in CacheBlocks :
          IF \E i \in 1..Len(queue) : queue[i].block_id = b
          THEN \A i \in 1..Len(queue) : queue[i].block_id = b => queue[i].data = latest[b]
          ELSE dev[b] = latest[b]
    /\ (CacheMissed /\ Len(cacheLast.queue_before) = BLOCK_CACHE_SIZE /\ ~cachePanicked)
          => cacheLast.dev_writes =
                IF Evicted.modified
                THEN <<[block_id |-> Evicted.block_id, data |-> latest[Evicted.block_id]]>>
                ELSE <<>>

\* a block that was modified and then evicted has been fetched again from the
\* device, and the entry holds what was written
C12_Witness ==
    /\ CacheMissed
    /\ cacheLast.dev_read
    /\ latest[cacheLast.block_id] # 0
    /\ dev[cacheLast.block_id] = latest[cacheLast.block_id]
    /\ \E i \in 1..Len(queue) :
          queue[i].eid = cacheLast.ret /\ queue[i].data = latest[cacheLast.block_id]

\* C13: get_block_cache of an uncached block panics exactly when the queue holds
\* 16 entries and each has an external holder; every other call returns a handle.
C13_PanicWhenAllHeld ==
    /\ cacheLast.op = "get" =>
          (cachePanicked <=>
              /\ ~cacheLast.was_cached
              /\ Len(cacheLast.queue_before) = BLOCK_CACHE_SIZE
              /\ \A i \in 1..BLOCK_CACHE_SIZE : HeldBefore(i))
    /\ (cacheLast.op = "get" /\ ~cachePanicked) =>
          /\ cacheLast.slot \in DOMAIN handles
          /\ handles[cacheLast.slot] = [eid |-> cacheLast.ret, block_id |-> cacheLast.block_id]
    /\ cacheLast.op # "get" => ~cachePanicked

\* the seventeenth distinct block was asked for while sixteen were held, one of
\* them by the caller of the get_block_cache before
C13_Witness ==
    /\ cachePanicked
    /\ CacheMissed
    /\ \E h \in DOMAIN handles :
          /\ handles[h] # NoHandle
          /\ cacheLast.queue_before[BLOCK_CACHE_SIZE].eid = handles[h].eid
          /\ handles[h].block_id >= BLOCK_CACHE_SIZE

\* C14: the queue of the block-cache manager never holds more than 16 entries.
C14_QueueBounded == Len(queue) <= BLOCK_CACHE_SIZE

\* two misses in a row on a full queue: the queue is still full
C14_Witness ==
    /\ CacheMissed
    /\ ~cachePanicked
    /\ Len(cacheLast.queue_before) = BLOCK_CACHE_SIZE
    /\ Len(queue) = BLOCK_CACHE_SIZE
    /\ cacheLast.queue_before[BLOCK_CACHE_SIZE].block_id >= BLOCK_CACHE_SIZE
    /\ cacheOps >= 2

\* what translate returned is a valid leaf
Mapped(t) == t.some /\ is_valid(t.bits)

\* C15: for a vpn that is not mapped and any ppn and flags, after
\* PageTable::map(vpn, ppn, flags) has returned, translate(vpn) returns an
\* entry whose ppn is ppn and whose flags contain V and every flag of flags,
\* and translate returns for every other vpn what it returned before.
C15_MapTranslate ==
    (ptLast.op = "map" /\ ~Mapped(ptLast.before) /\ ptLast.panic = "no") =>
        LET t == translate(mem, page_table, ptLast.vpn)
            want == BitOr(PTEFlags_V, ptLast.flags)
        IN /\ t.some
           /\ ppn_of(t.bits) = ptLast.ppn
           /\ BitAnd(flags_of(t.bits), want) = want
           /\ ptLast.changed = {}

\* C16: translate(vpn) returns the leaf entry only if it is valid and none
\* otherwise: none for a vpn that was never mapped even when the tables above
\* its leaf exist because a neighbouring vpn is mapped, and none after
\* map(vpn, ..) followed by unmap(vpn).
C16_TranslateValidOnly ==
    /\ \A v \in PtVpns :
          LET t == translate(mem, page_table, v) IN t.some => is_valid(t.bits)
    /\ (ptLast.op = "unmap" /\ ptLast.panic = "no")
          => ~translate(mem, page_table, ptLast.vpn).some
    /\ ptLast.op = "translate" => (ptLast.ret.some => is_valid(ptLast.ret.bits))

\* the bits of the leaf translate found, no leaf being no bits
LeafBits(t) == IF t.some THEN t.bits ELSE 0

\* C17: PageTable::map(vpn, ..) panics with "vpn is mapped before mapping" if
\* and only if the leaf entry for vpn is already valid, PageTable::unmap(vpn)
\* panics if and only if the leaf entry for vpn is not valid, and a call that
\* panics so leaves the leaf entry as it was.
C17_MapUnmapPanics ==
    LET now == translate(mem, page_table, ptLast.vpn)
    IN /\ ptLast.op = "map" =>
             /\ (ptLast.panic = "mapped") <=> Mapped(ptLast.before)
             /\ ptLast.panic = "mapped" => now = ptLast.before
       /\ ptLast.op = "unmap" =>
             /\ (ptLast.panic # "no") <=> ~Mapped(ptLast.before)
             /\ ptLast.panic = "invalid" =>
                   /\ ~Mapped(now)
                   /\ LeafBits(now) = LeafBits(ptLast.before)

\* map has panicked on a vpn whose leaf a map before it had made valid, and
\* the leaf still holds what that map wrote
C17_Witness ==
    /\ ptLast.op = "map"
    /\ ptLast.panic = "mapped"
    /\ Mapped(ptLast.before)
    /\ translate(mem, page_table, ptLast.vpn) = ptLast.before

\* C18: StackFrameAllocator::alloc returns the page released most recently and
\* not handed out again whenever the recycled set is not empty, so that a
\* dealloc(f) followed at once by alloc() returns f; with an empty recycled set
\* it returns the cursor and advances it by one; it returns none only when the
\* recycled set is empty and the cursor has reached the end of the range.
C18_AllocLifo ==
    faLast.op = "alloc" =>
        LET b == faLast.before
        IN /\ b.recycled # <<>> =>
                 /\ faLast.ret = b.recycled[Len(b.recycled)]
                 /\ frame_allocator = [b EXCEPT !.recycled = SubSeq(@, 1, Len(@) - 1)]
           /\ (b.recycled = <<>> /\ b.current # b.end) =>
                 /\ faLast.ret = b.current
                 /\ frame_allocator = [b EXCEPT !.current = b.current + 1]
           /\ (faLast.ret = NONE) <=> (b.recycled = <<>> /\ b.current = b.end)
           /\ faLast.ret = NONE => frame_allocator = b
           /\ (faLast.prev = "dealloc" /\ ~faLast.prev_panic) => faLast.ret = faLast.prev_ppn

\* alloc has just returned the page the dealloc before it released, with an
\* older released page still waiting under it
C18_Witness ==
    /\ faLast.op = "alloc"
    /\ faLast.prev = "dealloc"
    /\ Len(faLast.before.recycled) >= 2
    /\ faLast.ret = faLast.prev_ppn
    /\ faLast.ret # faLast.before.recycled[1]

\* C19: StackFrameAllocator::dealloc(ppn) panics and leaves the allocator as it
\* was if ppn was never handed out by alloc (page numbers below the start of
\* the managed range included) or is already in the recycled set; otherwise it
\* pushes ppn onto the recycled set.
C19_DeallocPanics ==
    faLast.op = "dealloc" =>
        LET b == faLast.before
            bad == \/ faLast.ppn \notin faLast.handed_before
                   \/ \E i \in 1..Len(b.recycled) : b.recycled[i] = faLast.ppn
        IN /\ faLast.panic <=> bad
           /\ faLast.panic => frame_allocator = b
           /\ ~faLast.panic => frame_allocator = [b EXCEPT !.recycled = Append(@, faLast.ppn)]

\* C20: syscall(id, args) calls, for every id of the system-call table (24 dup,
\* 56 open, 57 close, 59 pipe, 63 read, 64 write, 93 exit, 124 yield,
\* 169 get_time, 172 getpid, 220 fork, 221 exec, 260 waitpid), the handler of
\* that name, and none of these ids reaches the "Unsupported syscall_id" panic.
C20_Dispatch ==
    \A n \in DOMAIN user_syscalls :
        dispatched.id = user_syscalls[n] => dispatched.handler = n

\* C22: get_disk_inode_pos places inodes packed four per 512-byte block: for
\* every id it returns (inode_area_start + id div 4, (id mod 4) * 128), so
\* distinct ids get distinct slots of 128 bytes, every id below the capacity of
\* the inode bitmap lies inside the inode area, and inode 0 is the first slot
\* of the inode area.
C22_InodePos ==
    (calc.fn = "get_disk_inode_pos" /\ calc.done) =>
        /\ calc.out = <<inode_area_start_block + calc.in \div 4, (calc.in % 4) * 128>>
        /\ \A j \in InodeIds \ {calc.in} : get_disk_inode_pos(j) # calc.out
        /\ calc.in < inode_num =>
              /\ calc.out[1] >= inode_area_start_block
              /\ calc.out[1] < inode_area_start_block + inode_area_blocks
        /\ calc.in = 0 => calc.out = <<inode_area_start_block, 0>>


\* C21: on a UserEnvCall trap the handler first adds 4 to sepc in the
\* caller's trap context, then runs the system call with id a7 and
\* arguments a0..a2, and only then writes the return value into a0 of the
\* trap context it re-reads after the call; after a successful exec the
\* value (argc) lands in the new trap context and the replaced page is not
\* written.
C21_TrapOrder ==
    LET c == trapCall
        old == trap_cx[c.entry_ppn]
    IN /\ trapPc = "syscall" =>
            old = [c.entry_cx EXCEPT !.sepc = c.entry_cx.sepc + 4]
       /\ trapPc \in {"write", "halted", "exited"} =>
            /\ c.id = c.entry_cx.x17
            /\ c.args = <<c.entry_cx.x10, c.entry_cx.x11, c.entry_cx.x12>>
            /\ c.handler = syscall(c.id, c.args).handler
            /\ old = [c.entry_cx EXCEPT !.sepc = c.entry_cx.sepc + 4]
            /\ c.wrote = NONE
       /\ (trapPc = "user" /\ c.n > 0) =>
            /\ c.id = c.entry_cx.x17
            /\ c.args = <<c.entry_cx.x10, c.entry_cx.x11, c.entry_cx.x12>>
            /\ c.wrote = trap_cx_ppn
            /\ trap_cx[trap_cx_ppn].x10 = c.result
            /\ ~c.exec_ok =>
                 trap_cx[trap_cx_ppn] = [c.entry_cx EXCEPT !.sepc = c.entry_cx.sepc + 4,
                                                           !.x10 = c.result]
            /\ c.exec_ok =>
                 /\ trap_cx_ppn # c.entry_ppn
                 /\ trap_cx[trap_cx_ppn] = exec_trap_cx(TrapEntry, c.result, TrapArgv)
                 /\ old = [c.entry_cx EXCEPT !.sepc = c.entry_cx.sepc + 4]

\* a successful exec with two arguments has returned to the user program
C21_Witness ==
    /\ trapPc = "user"
    /\ trapCall.exec_ok
    /\ trapCall.result = MaxArgc
    /\ trapCall.entry_cx.x10 # MaxArgc
    /\ trapCall.n = MaxTraps


\* C23: Inode::create(name) on the root directory returns none, allocating
\* no inode and adding no entry, when an entry called name exists; otherwise
\* it allocates a fresh inode initialised as an empty file and appends one
\* entry (name, inode id) at the end of the directory, after which find(name)
\* gives that inode and ls() gives all names in creation order.
C23_Create ==
    fsLast.op = "create" =>
        LET names == Inode_ls(dinode[0], disk)
            n == Len(fsLast.ls_before)
        IN IF \E i \in 1..n : fsLast.ls_before[i] = fsLast.name
           THEN /\ fsLast.ret = NONE
                /\ inodeBits = fsLast.bits_before
                /\ names = fsLast.ls_before
           ELSE /\ fsLast.ret # NONE
                /\ fsLast.ret \notin fsLast.bits_before
                /\ inodeBits = fsLast.bits_before \cup {fsLast.ret}
                /\ dinode[fsLast.ret] = DiskInode_initialize("File")
                /\ names = Append(fsLast.ls_before, fsLast.name)
                /\ find_inode_id(fsLast.name, dinode[0], disk) = fsLast.ret


\* C28: DiskInode::total_blocks(size) is the number of data blocks
\* d = ceil(size / 512) plus the index blocks d needs: 1 (the single-indirect
\* block) when d > 28 and, when d > 156, 1 more for the double-indirect root
\* and ceil((d - 156) / 128) leaf blocks; it is defined for every d (no
\* underflow) and does not decrease as size grows.
C28_TotalBlocks ==
    (calc.fn = "total_blocks" /\ calc.done) =>
        LET d == (calc.in + 511) \div 512
            index == (IF d > 28 THEN 1 ELSE 0)
                     + (IF d > 156 THEN 1 + (d - 156 + 127) \div 128 ELSE 0)
        IN /\ ~calc.out.panic
           /\ calc.out.val = d + index
           /\ \A size \in CalcSizes : size <= calc.in => total_blocks(size) <= calc.out.val


\* C27: DiskInode::get_block_id(inner_id) is direct[inner_id] for inner_id
\* in [0, 28), entry inner_id - 28 of the single-indirect block for inner_id
\* in [28, 156), and for inner_id from 156 on entry (inner_id - 156) mod 128
\* of the leaf whose id is entry (inner_id - 156) div 128 of the
\* double-indirect root: the id increase_size wired into that position.
C27_GetBlockId ==
    (calc.fn = "get_block_id" /\ calc.done) =>
        LET di == calc.in.di
            iv == calc.in.ind
            p == calc.in.inner_id
            wired == IF p < 28 THEN di.direct[p + 1]
                     ELSE IF p < 156 THEN IndGet(iv, di.indirect1)[p - 28]
                     ELSE IndGet(iv, IndGet(iv, di.indirect2)[(p - 156) \div 128])[(p - 156) % 128]
        IN /\ ~calc.out.panic
           /\ calc.out.val = wired


\* the block at position p of a file, by the addressing of the layout
WiredAt(di, iv, p) ==
    IF p < 28 THEN di.direct[p + 1]
    ELSE IF p < 156 THEN IndGet(iv, di.indirect1)[p - 28]
    ELSE IndGet(iv, IndGet(iv, di.indirect2)[(p - 156) \div 128])[(p - 156) % 128]

\* the index blocks of a file of d data blocks
IndexBlocks(di, iv, d) ==
    (IF d > 28 THEN {di.indirect1} ELSE {})
        \cup (IF d > 156
              THEN {di.indirect2}
                       \cup {IndGet(iv, di.indirect2)[a] : a \in 0..((d - 157) \div 128)}
              ELSE {})

\* C29: DiskInode::increase_size(new_size, new_blocks), called with exactly
\* total_blocks(new_size) - total_blocks(old size) ids, consumes every id
\* once (it never runs out and leaves none unused), fills direct slots, then
\* the single-indirect block, then the double-indirect root and its leaves,
\* and never overwrites a slot that already held a block of the file.
C29_IncreaseSize ==
    (calc.fn = "increase_size" /\ calc.done) =>
        LET old == calc.in.di
            new == calc.out.di
            nb == calc.in.new_blocks
            d0 == data_blocks_of(old.size)
            d1 == data_blocks_of(calc.in.new_size)
            ids == {nb[k] : k \in 1..Len(nb)}
            data == {WiredAt(new, calc.out.ind, p) : p \in d0..(d1 - 1)}
        IN /\ calc.out.used = Len(nb)
           /\ new.size = calc.in.new_size
           /\ \A p \in 0..(d0 - 1) : WiredAt(new, calc.out.ind, p) = WiredAt(old, calc.in.ind, p)
           /\ IndexBlocks(old, calc.in.ind, d0) \subseteq IndexBlocks(new, calc.out.ind, d1)
           /\ data \cup (IndexBlocks(new, calc.out.ind, d1) \ IndexBlocks(old, calc.in.ind, d0)) = ids
           /\ Cardinality(data) = d1 - d0
           /\ \A p, q \in d0..(d1 - 1) :
                  p < q => WiredAt(new, calc.out.ind, p) < WiredAt(new, calc.out.ind, q)


\* C30: Inode::clear sets the inode's size to 0 and frees in the data bitmap
\* exactly the blocks the inode held, each once: the number of freed ids is
\* total_blocks(old size) (the assertion in clear never fails), no id is freed
\* twice, and the data bitmap is as it was before the file's blocks were
\* allocated.
C30_Clear ==
    fsLast.op = "clear" =>
        LET v == fsLast.freed
            freed == {v[k] - data_area_start_block : k \in 1..Len(v)}
        IN /\ ~fsLast.panic
           /\ dinode[fsLast.ino].size = 0
           /\ Len(v) = total_blocks(fsLast.old_size)
           /\ Cardinality(freed) = Len(v)
           /\ freed = fsLast.owned
           /\ dataBits \cap fsLast.owned = {}


\* C24: file contents persist across close and reopen and are dropped by
\* truncation: a write of n bytes to a file opened with CREATE|WRONLY
\* returns n, a later open of the name followed by read returns the bytes
\* written, an open of the existing file with TRUNC or CREATE empties it so
\* that read returns 0 bytes, and open of a name that does not exist
\* without CREATE returns -1 (and only such an open does).
C24_FilePersists ==
    /\ fileLast.op = "write" => fileLast.ret = Len(fileLast.buf)
    /\ fileLast.op = "read" =>
         /\ fileLast.out = fileLast.expect
         /\ fileLast.ret = Len(fileLast.expect)
    /\ fileLast.op = "open" =>
         (fileLast.ret = 0 - 1 <=> (~contains(fileLast.flags, CREATE) /\ ~fileLast.existed))


\* the fds of a table that are free, the first one past its end included
FreeFds(t) == {i \in 0..Len(t) : i = Len(t) \/ t[i + 1] = NoFile}

\* the least member of a set of numbers
Least(S) == CHOOSE i \in S : \A j \in S : i <= j

\* C25: alloc_fd gives the lowest-numbered empty slot of the task's fd table
\* and extends the table by one slot only when no slot is empty: sys_dup and
\* sys_open return the lowest free fd, sys_pipe stores the read end in the
\* lowest free fd and the write end in the next lowest and writes them to the
\* user array in that order, and an fd released by sys_close is reused
\* before any higher free fd.
C25_LowestFd ==
    [][LET ft == tcb[INITPROC].fd_table
           ft2 == tcb'[INITPROC].fd_table
           filled == {i \in 0..(Len(ft2) - 1) :
                         ft2[i + 1] # NoFile /\ (i >= Len(ft) \/ ft[i + 1] = NoFile)}
           lowest == Least(FreeFds(ft))
       IN IF filled = {}
          THEN Len(ft2) = Len(ft)
          ELSE /\ lowest \in filled
               /\ \A i \in filled : \A j \in 0..(i - 1) : ft2[j + 1] # NoFile
               /\ Len(ft2) = Max(Len(ft), Least({n \in 0..Len(ft2) : \A i \in filled : i < n}))
               /\ Cardinality(filled) = 1 => tcb'[INITPROC].a0 = lowest
               /\ Cardinality(filled) = 2 =>
                    LET next == Least(filled \ {lowest})
                    IN /\ tcb'[INITPROC].ufds = <<lowest, next>>
                       /\ ft2[lowest + 1].kind = "pipe_r"
                       /\ ft2[next + 1].kind = "pipe_w"
               /\ Cardinality(filled) <= 2]_vars

\* a pipe whose read end went to fd 3, released before, and whose write end
\* went past the held fd 4 to fd 5
C25_Witness ==
    /\ tcb[INITPROC].ufds = <<3, 5>>
    /\ Len(tcb[INITPROC].fd_table) = 6
    /\ tcb[INITPROC].fd_table[4].kind = "pipe_r"
    /\ tcb[INITPROC].fd_table[5].kind = "inode"
    /\ tcb[INITPROC].fd_table[6].kind = "pipe_w"

\* C26: in the address space new_kernel builds, remap_test finds the page at
\* the middle of .text and the page at the middle of .rodata mapped and not
\* writable and the page at the middle of .data mapped and not executable,
\* each onto the physical page of its own number
C26_RemapTest ==
    (calc.fn = "remap_test" /\ calc.done) =>
        LET lay == calc.in
            mid_text == VirtAddr_floor(MidAddr(lay.stext, lay.etext))
            mid_rodata == VirtAddr_floor(MidAddr(lay.srodata, lay.erodata))
            mid_data == VirtAddr_floor(MidAddr(lay.sdata, lay.edata))
            Pte(v) == translate(mem, page_table, v)
        IN /\ calc.out
           /\ \A v \in {mid_text, mid_rodata, mid_data} :
                Pte(v).some /\ is_valid(Pte(v).bits) /\ ppn_of(Pte(v).bits) = v
           /\ ~writable(Pte(mid_text).bits) /\ executable(Pte(mid_text).bits)
           /\ ~writable(Pte(mid_rodata).bits) /\ ~executable(Pte(mid_rodata).bits)
           /\ writable(Pte(mid_data).bits) /\ ~executable(Pte(mid_data).bits)

\* remap_test has passed on a kernel whose .text, .rodata and .data hold
\* several pages each
C26_Witness ==
    /\ calc.fn = "remap_test" /\ calc.done /\ calc.out
    /\ calc.in.etext[1] - calc.in.stext[1] = MaxSectionPages
    /\ calc.in.erodata[1] - calc.in.srodata[1] = 2
    /\ calc.in.edata[1] - calc.in.sdata[1] = 2

\* C31: Bitmap::alloc returns the smallest clear bit of the bitmap and sets
\* that bit and no other; it returns None, leaving the blocks as they were,
\* when and only when every bit of every block is set.  Bitmap::dealloc
\* panics on a clear bit and otherwise clears that bit and no other, and an
\* alloc right after it returns a bit no higher than the one freed
C31_Bitmap ==
    LET all == 0..(maximum(bitmap) - 1)
        Was(b) == BitAt(bitmap, bmLast.before, b)
    IN /\ bmLast.op = "alloc" =>
            /\ ~bmLast.panic
            /\ (bmLast.ret = NONE) <=> (\A b \in all : Was(b))
            /\ bmLast.ret = NONE => bmDev = bmLast.before
            /\ bmLast.ret # NONE =>
                  /\ bmLast.ret \in all /\ ~Was(bmLast.ret)
                  /\ \A b \in 0..(bmLast.ret - 1) : Was(b)
                  /\ bmDev = WithBit(bitmap, bmLast.before, bmLast.ret, TRUE)
                  /\ bmDev # bmLast.before
            /\ (bmLast.prev = "dealloc") => (bmLast.ret # NONE /\ bmLast.ret <= bmLast.prev_bits)
       /\ bmLast.op = "dealloc" =>
            /\ bmLast.panic <=> ~Was(bmLast.bits)
            /\ bmLast.panic => bmDev = bmLast.before
            /\ ~bmLast.panic =>
                  /\ bmDev = WithBit(bitmap, bmLast.before, bmLast.bits, FALSE)
                  /\ ~BitAt(bitmap, bmDev, bmLast.bits)

\* an alloc has returned None on a full bitmap of two blocks, or a bit of the
\* second block right after that bit was freed
C31_Witness ==
    /\ bitmap.blocks = 2 /\ bmLast.op = "alloc"
    /\ \/ bmLast.ret = NONE
       \/ bmLast.prev = "dealloc" /\ bmLast.ret = bmLast.prev_bits /\ bmLast.ret >= BLOCK_BITS

\* C32: EasyFileSystem::create lays the superblock, the inode bitmap, the
\* inode area, the data bitmap and the data area one after the other from
\* block 0 to total_blocks, with ceil(data_total / 4097) blocks of data bitmap,
\* which hold a bit for every block of the data area; EasyFileSystem::open of
\* the device create formatted builds the same bitmaps and the same starts of
\* the inode area and of the data area
C32_Layout ==
    (calc.fn = "EasyFileSystem::open" /\ calc.done) =>
        LET total == calc.in[1]
            efs == calc.created.efs
            sb == SuperBlockAt(calc.created.block0)
            data_total == sb.data_bitmap_blocks + sb.data_area_blocks
        IN /\ sb.total_blocks = total /\ sb.inode_bitmap_blocks = calc.in[2]
           /\ efs.inode_bitmap = Bitmap_new(1, sb.inode_bitmap_blocks)
           /\ efs.inode_area_start_block = 1 + sb.inode_bitmap_blocks
           /\ efs.data_bitmap.start_block_id = efs.inode_area_start_block + sb.inode_area_blocks
           /\ efs.data_bitmap.blocks = sb.data_bitmap_blocks
           /\ efs.data_area_start_block = efs.data_bitmap.start_block_id + sb.data_bitmap_blocks
           /\ efs.data_area_start_block + sb.data_area_blocks = total
           /\ 1 + sb.inode_bitmap_blocks + sb.inode_area_blocks + sb.data_bitmap_blocks
                + sb.data_area_blocks = total
           /\ sb.inode_area_blocks >= 0 /\ sb.data_bitmap_blocks >= 0 /\ sb.data_area_blocks >= 0
           /\ sb.data_bitmap_blocks * (BLOCK_BITS + 1) >= data_total
           /\ (sb.data_bitmap_blocks - 1) * (BLOCK_BITS + 1) < data_total
           /\ maximum(efs.data_bitmap) >= sb.data_area_blocks
           /\ ~calc.out.panic /\ calc.out.efs = efs
           /\ calc.in = <<FsTotalBlocks, FsInodeBitmapBlocks>> =>
                 /\ efs.inode_area_start_block = inode_area_start_block
                 /\ efs.data_area_start_block = data_area_start_block
                 /\ sb.data_area_blocks = data_area_blocks

\* open has read a device whose data area needs a second block of bitmap
\* for its last block
C32_Witness ==
    /\ calc.fn = "EasyFileSystem::open" /\ calc.done /\ ~calc.out.panic
    /\ calc.out.efs.data_bitmap.blocks = 2
    /\ SuperBlockAt(calc.created.block0).data_area_blocks = BLOCK_BITS + 1

\* C33: no kernel path holds the inner locks of two tasks at once: not
\* sys_fork with TCB::fork, not sys_waitpid, not the scheduler's loop
C33_OneInnerLock ==
    [][/\ SysFork(MaxTasks) =>
            ~HoldsTwo(sys_fork_held(current, pid_alloc(pid_current, pid_recycled).pid))
       /\ \A pid \in WaitPids :
            SysWaitpid(pid) => ~HoldsTwo(sys_waitpid_held(tcb, current, pid))
       /\ Run => ~HoldsTwo(Processor_run_held(Head(ready_queue)))]_vars

\* the data blocks the index of an inode records
DataBlocksOf(di, iv) == {WiredAt(di, iv, p) : p \in 0..(data_blocks_of(di.size) - 1)}

\* C34: a read or a write of a file's contents, and the write of a directory
\* entry by create, reaches only data blocks the inode's index records: not
\* the superblock, a bitmap block, an inode block or another inode's block
C34_OwnBlocksOnly ==
    [][fsOps' # fsOps =>
         LET changed == {a \div BLOCK_SZ :
                            a \in {x \in DOMAIN disk' : ByteAt(disk', x) # ByteAt(disk, x)}}
         IN /\ fsLast'.op = "write" =>
                 /\ rw_blocks(dinode'[fsLast'.ino], fsLast'.offset, Len(fsLast'.buf))
                        \subseteq DataBlocksOf(dinode'[fsLast'.ino], ind')
                 /\ changed \subseteq DataBlocksOf(dinode'[fsLast'.ino], ind')
            /\ fsLast'.op = "read" =>
                 rw_blocks(dinode[fsLast'.ino], fsLast'.offset, fsLast'.len)
                     \subseteq DataBlocksOf(dinode[fsLast'.ino], ind)
            /\ (fsLast'.op = "create" /\ fsLast'.ret # NONE) =>
                 changed \subseteq DataBlocksOf(dinode'[0], ind')]_vars

\* C35: no operation of Inode (find, ls, create, clear, read_at, write_at)
\* asks for the lock of a block-cache entry while it holds that lock
C35_NoSelfLock ==
    "wants" \in DOMAIN calc => \A w \in calc.wants : ~SelfLock(w)

\* C36: every block id EasyFileSystem::alloc_data returns lies in the data
\* area, data_area_start_block <= id < total_blocks, and is not an id handed
\* out earlier and not yet passed to dealloc_data
C36_AllocData ==
    (bmLast.op = "alloc_data" /\ bmLast.ret # NONE) =>
        /\ AdEfs.data_area_start_block <= bmLast.ret
        /\ bmLast.ret < FsTotalBlocks
        /\ bmLast.ret \notin bmLast.was_held

C39_Allocator ==
    LET fa == frame_allocator
    IN /\ \A i \in 1..Len(fa.recycled) :
             /\ fa.recycled[i] < fa.current
             /\ \A j \in 1..Len(fa.recycled) : fa.recycled[i] = fa.recycled[j] => i = j
       /\ fa.current <= fa.end
       /\ (faLast.op = "alloc" /\ faLast.ret # NONE) => faLast.ret \notin faLast.out_before
       /\ \A x \in faLast.out : \A i \in 1..Len(fa.recycled) : fa.recycled[i] # x

\* alloc has returned, from recycled, a page it had returned before and that
\* was deallocated in between, while another page is still out
C39_Witness ==
    /\ faLast.op = "alloc" /\ faLast.ret # NONE
    /\ faLast.ret \in faLast.handed_before
    /\ faLast.prev = "dealloc" /\ ~faLast.prev_panic
    /\ faLast.out_before # {}
    /\ frame_allocator.recycled # <<>>

==============================================================================
